---- MODULE Spec2Model ----
(***************************************************************************)
(* The extinction-curve notebook                                           *)
(* (notebooks/IUE/exploring_UV_extinction_curves) as a state machine: the  *)
(* kernel's module-level variables are the state, the statements of its    *)
(* code cells are the actions.  numpy's float arithmetic, numpy's array    *)
(* broadcasting, Python slicing and matplotlib's plot are modelled by what *)
(* they do on the values the cells hand them.                              *)
(***************************************************************************)
EXTENDS Integers, Sequences, FiniteSets, TLC

(***************************************************************************)
(* Bounds of the model.                                                    *)
(***************************************************************************)
\* longest spectrum a file holds
MaxLen == 3
\* largest number of points the crop cell is asked to remove from an end
MaxCrop == 2
\* how many times the user re-executes the notebook from an earlier cell
MaxReruns == 1
\* floats overflow to inf at 2^EMax and underflow to zero below 2^-EMax
\* (IEEE double: 1024; scaled down so that the model's values reach it)
EMax == 14
\* exponent of the largest and (negated) of the smallest flux magnitude drawn
BigExp == 8
\* longest product table handed to a filter call on drawn inputs
MaxProducts == 2

(***************************************************************************)
(* Floating point numbers.  A float is NaN, +-inf, +-0 or a finite         *)
(* non-zero rational s * p / q (s the sign, p and q coprime).  Rounding of *)
(* the mantissa is not modelled; overflow and underflow are.               *)
(***************************************************************************)
RECURSIVE GCD(_, _)
GCD(a, b) == IF b = 0 THEN a ELSE GCD(b, a % b)

RECURSIVE Pow2(_)
Pow2(n) == IF n = 0 THEN 1 ELSE 2 * Pow2(n - 1)

Limit == Pow2(EMax)

NaN == [k |-> "nan", s |-> 1, p |-> 0, q |-> 1]
Inf(s) == [k |-> "inf", s |-> s, p |-> 0, q |-> 1]
Zero(s) == [k |-> "zero", s |-> s, p |-> 0, q |-> 1]

\* s * p / q as a float: the result of an operation whose exact value it is
Round(s, p, q) ==
    IF p = 0 THEN Zero(s)
    ELSE IF p \div q >= Limit THEN Inf(s)
    ELSE IF (q - 1) \div p >= Limit THEN Zero(s)
    ELSE LET g == GCD(p, q) IN [k |-> "fin", s |-> s, p |-> p \div g, q |-> q \div g]

\* the float of an integer
Num(n) == IF n < 0 THEN Round(-1, -n, 1) ELSE Round(1, n, 1)
\* the float 2^e (e may be negative)
Two(e) == IF e < 0 THEN Round(1, 1, Pow2(-e)) ELSE Round(1, Pow2(e), 1)

Neg(a) == IF a.k = "nan" THEN a ELSE [a EXCEPT !.s = -a.s]

IsFinite(a) == a.k \in {"fin", "zero"}
IsZero(a) == a.k = "zero"
IsPositive(a) == a.k \in {"fin", "inf"} /\ a.s = 1

\* IEEE 754 division, as numpy performs it: a warning at most, never an exception
Div(a, b) ==
    IF a.k = "nan" \/ b.k = "nan" THEN NaN
    ELSE IF a.k = "inf" THEN (IF b.k = "inf" THEN NaN ELSE Inf(a.s * b.s))
    ELSE IF b.k = "inf" THEN Zero(a.s * b.s)
    ELSE IF b.k = "zero" THEN (IF a.k = "zero" THEN NaN ELSE Inf(a.s * b.s))
    ELSE IF a.k = "zero" THEN Zero(a.s * b.s)
    ELSE Round(a.s * b.s, a.p * b.q, a.q * b.p)

\* IEEE 754 multiplication
Mul(a, b) ==
    IF a.k = "nan" \/ b.k = "nan" THEN NaN
    ELSE IF a.k = "inf" \/ b.k = "inf"
         THEN (IF a.k = "zero" \/ b.k = "zero" THEN NaN ELSE Inf(a.s * b.s))
    ELSE IF a.k = "zero" \/ b.k = "zero" THEN Zero(a.s * b.s)
    ELSE Round(a.s * b.s, a.p * b.p, a.q * b.q)

\* IEEE 754 addition
Add(a, b) ==
    IF a.k = "nan" \/ b.k = "nan" THEN NaN
    ELSE IF a.k = "inf" THEN (IF b.k = "inf" /\ b.s # a.s THEN NaN ELSE a)
    ELSE IF b.k = "inf" THEN b
    ELSE IF a.k = "zero" THEN (IF b.k = "zero" THEN Zero(IF a.s = -1 /\ b.s = -1 THEN -1 ELSE 1) ELSE b)
    ELSE IF b.k = "zero" THEN a
    ELSE LET n == a.s * a.p * b.q + b.s * b.p * a.q
         IN  IF n = 0 THEN Zero(1)
             ELSE IF n < 0 THEN Round(-1, -n, a.q * b.q)
             ELSE Round(1, n, a.q * b.q)

Sub(a, b) == Add(a, Neg(b))

\* the exponent e of a power of two n = 2^e
RECURSIVE Log2(_)
Log2(n) == IF n <= 1 THEN 0 ELSE 1 + Log2(n \div 2)

\* The logarithm of a float, in units of the logarithm of 2: the model's
\* arguments of a logarithm are signed powers of two, so the result is exact.
\* log(0) = -inf, log(x < 0) = NaN, log(inf) = inf: numpy warns and goes on.
LogPow2(a) ==
    IF a.k = "nan" THEN NaN
    ELSE IF a.k = "zero" THEN Inf(-1)
    ELSE IF a.s = -1 THEN NaN
    ELSE IF a.k = "inf" THEN Inf(1)
    ELSE Num(Log2(a.p) - Log2(a.q))

\* np.log, unit ln 2
np_log(a) == LogPow2(a)
\* np.log10, unit log10 2
np_log10(a) == LogPow2(a)

(***************************************************************************)
(* Arrays: numpy's element-wise operations and broadcasting, Python's      *)
(* slices, matplotlib's plot.                                              *)
(***************************************************************************)
Min(a, b) == IF a < b THEN a ELSE b
Max(a, b) == IF a > b THEN a ELSE b

\* BroadcastLen as it would be if an empty array could not be divided
BroadcastLenNoEmpty(m, n) ==
    IF m = n /\ m > 0 THEN m ELSE IF m = 1 THEN n ELSE IF n = 1 THEN m ELSE -1

\* the length of the broadcast of two 1-d arrays of lengths m and n, or -1
\* where numpy raises "operands could not be broadcast together"
BroadcastLen(m, n) ==
    IF m = n THEN m ELSE IF m = 1 THEN n ELSE IF n = 1 THEN m ELSE -1

\* element i of a 1-d array broadcast to a longer shape
At(a, i) == IF Len(a) = 1 THEN a[1] ELSE a[i]

\* array / array
arr_div(a, b) == [i \in 1..BroadcastLen(Len(a), Len(b)) |-> Div(At(a, i), At(b, i))]
\* scal_div as it would be with the operands exchanged (array / scalar)
scal_divReversed(c, a) == [i \in 1..Len(a) |-> Div(a[i], c)]

\* scalar / array
scal_div(c, a) == [i \in 1..Len(a) |-> Div(c, a[i])]
\* scalar * array
scal_mul(c, a) == [i \in 1..Len(a) |-> Mul(c, a[i])]
\* array / scalar
div_scal(a, c) == [i \in 1..Len(a) |-> Div(a[i], c)]
\* np.log(array), np.log10(array)
arr_log(a) == [i \in 1..Len(a) |-> np_log(a[i])]
arr_log10(a) == [i \in 1..Len(a) |-> np_log10(a[i])]

\* PySliceFrom as it would be if a start beyond the end were not clipped to it
PySliceFromNoClip(x, start) ==
    LET n == Len(x)
        lo == IF start < 0 THEN Max(n + start, 0) ELSE IF start > n THEN 0 ELSE start
    IN  SubSeq(x, lo + 1, n)

\* x[start:]
PySliceFrom(x, start) ==
    LET n == Len(x)
        lo == IF start < 0 THEN Max(n + start, 0) ELSE Min(start, n)
    IN  SubSeq(x, lo + 1, n)

\* PySliceTo as it would be if it kept the last elements instead of the first
PySliceToSuffix(x, stop) ==
    LET n == Len(x)
        hi == IF stop < 0 THEN Max(n + stop, 0) ELSE Min(stop, n)
    IN  SubSeq(x, n - hi + 1, n)

\* x[:stop]
PySliceTo(x, stop) ==
    LET n == Len(x)
        hi == IF stop < 0 THEN Max(n + stop, 0) ELSE Min(stop, n)
    IN  SubSeq(x, 1, hi)

\* plt.plot(x, y, ...): the lines it adds to the charting sink, or the
\* exception "x and y must have same first dimension"
plt_plot(x, y) ==
    IF Len(x) # Len(y)
    THEN [raised |-> "ValueError", lines |-> << >>]
    ELSE [raised |-> "none", lines |-> << [x |-> x, y |-> y] >>]

(***************************************************************************)
(* The archive client: product tables, Observations.filter_products and    *)
(* Observations.download_products.  A product is a row [obsid,             *)
(* productType, productFilename, calib_level, mrp]; a file name is the     *)
(* sequence of its parts, so that "ends with" can be told from "equals".   *)
(***************************************************************************)
\* str.endswith
EndsWith(name, suffix) ==
    /\ Len(suffix) <= Len(name)
    /\ SubSeq(name, Len(name) - Len(suffix) + 1, Len(name)) = suffix

\* one option of one filter against one row: the extension filter is matched
\* against the end of the file name, every other filter against the column
MatchesOption(p, field, elt) ==
    IF field = "extension" THEN EndsWith(p.productFilename, elt) ELSE p[field] = elt

\* the mask of one filter: the options are joined one after the other
RECURSIVE OptionsMask(_, _, _)
OptionsMask(p, field, options) ==
    IF options = << >> THEN FALSE
    ELSE MatchesOption(p, field, Head(options)) \/ OptionsMask(p, field, Tail(options))

\* FiltersMask as it would be if the filters were joined like the options
RECURSIVE FiltersMaskAny(_, _)
FiltersMaskAny(p, fs) ==
    IF fs = << >> THEN FALSE
    ELSE OptionsMask(p, Head(fs).field, Head(fs).options) \/ FiltersMaskAny(p, Tail(fs))

\* the mask of all filters: the masks of the filters are joined one after
\* the other
RECURSIVE FiltersMask(_, _)
FiltersMask(p, fs) ==
    IF fs = << >> THEN TRUE
    ELSE OptionsMask(p, Head(fs).field, Head(fs).options) /\ FiltersMask(p, Tail(fs))

\* Observations.filter_products(products, mrp_only=..., **filters)
filter_products(products, mrp_only, fs) ==
    SelectSeq(products, LAMBDA p : (mrp_only => p.mrp) /\ FiltersMask(p, fs))

\* what happens to one file of a download: it is in the local cache, it is
\* fetched, or fetching it fails
FileConditions == {"cached", "fetched", "http_error"}

\* the status the manifest reports for a file
StatusOf(cond) ==
    CASE cond = "cached" -> "SKIPPED"
      [] cond = "fetched" -> "COMPLETE"
      [] cond = "http_error" -> "ERROR"

\* ManifestRow as it would be if the reason of a failure were dropped
ManifestRowNoMessage(p, cond) ==
    [LocalPath |-> p.productFilename, Status |-> StatusOf(cond), Message |-> "None"]

\* the manifest row of one product
ManifestRow(p, cond) ==
    [LocalPath |-> p.productFilename,
     Status |-> StatusOf(cond),
     Message |-> IF cond = "http_error" THEN "HTTPError" ELSE "None"]

\* Observations.download_products(products, mrp_only=..., **filters): the
\* filters are applied, then every selected file is fetched in the order of
\* the table; conds[i] is what happens to the i-th of them.  No selected
\* product: no manifest (None, here the empty sequence).
download_products(products, mrp_only, fs, conds) ==
    LET selected == filter_products(products, mrp_only, fs)
    IN  [i \in 1..Len(selected) |-> ManifestRow(selected[i], conds[i])]

\* 10**4, the wavelength to inverse-wavelength conversion
K == 10000

(***************************************************************************)
(* The kernel's state.                                                     *)
(***************************************************************************)
VARIABLES
    pc,              \* the statement the run is at
    error,           \* the exception that stopped the run, or "none"
    files,           \* the downloaded FITS files: name -> [wav, flux]
    wav_lw_dusty, flux_lw_dusty, wav_sw_dusty, flux_sw_dusty,
    wav_lw_nodust, flux_lw_nodust, wav_sw_nodust, flux_sw_nodust,
    table_dusty, table_nodust,
    V_dusty, B_dusty, V_nodust, B_nodust, EBV,
    s_crop, l_crop,
    s_inv_wav, s_ext, l_inv_wav, l_ext,
    sink,            \* the charting sink: the lines plotted so far
    calls,           \* history: the invocations of Extinction so far
    reruns,          \* how many times the user went back to an earlier cell
    mast,            \* the archive: target -> the products it lists, in its order
    obs_table_nodust, data_products_nodust, filtered_products_nodust,
    manifest_nodust,
    obs_table_dusty, data_products_dusty, manifest_dusty,
    filters,         \* history: the filters of the last filter or download call
    unreadable       \* the file names whose path holds no readable FITS file

arrays == << wav_lw_dusty, flux_lw_dusty, wav_sw_dusty, flux_sw_dusty,
             wav_lw_nodust, flux_lw_nodust, wav_sw_nodust, flux_sw_nodust >>
photometry == << table_dusty, table_nodust >>
norms == << V_dusty, B_dusty, V_nodust, B_nodust, EBV >>
crops == << s_crop, l_crop >>
curves == << s_inv_wav, s_ext, l_inv_wav, l_ext >>
archive == << mast, obs_table_nodust, data_products_nodust, filtered_products_nodust,
              manifest_nodust, obs_table_dusty, data_products_dusty, manifest_dusty,
              filters, unreadable >>
vars == << pc, error, files, arrays, photometry, norms, crops, curves, sink,
           calls, reruns, archive >>

(***************************************************************************)
(* def Extinction(wav, flux1, flux2): the module-level V_dusty, V_nodust   *)
(* and EBV are read, not passed: a name the normalization cell has not     *)
(* assigned yet raises NameError where the body reads it.  The result      *)
(* names the exception raised ("none" when it returns), the returned pair  *)
(* and the lines plotted.                                                  *)
(***************************************************************************)
\* Extinction as it would be with the flux ratio inverted
ExtinctionInverted(wav, flux1, flux2) ==
    LET V_rat == Div(V_dusty, V_nodust)
    IN  IF V_dusty.k = "unset" \/ V_nodust.k = "unset"
        THEN [raised |-> "NameError", inv_wav |-> << >>, ext |-> << >>, lines |-> << >>]
        ELSE IF BroadcastLen(Len(flux1), Len(flux2)) < 0
        THEN [raised |-> "ValueError", inv_wav |-> << >>, ext |-> << >>, lines |-> << >>]
        ELSE IF EBV.k = "unset"
        THEN [raised |-> "NameError", inv_wav |-> << >>, ext |-> << >>, lines |-> << >>]
        ELSE LET flux_rat == arr_div(flux2, flux1)
                 ext == div_scal(arr_log(scal_div(V_rat, flux_rat)), EBV)
                 inv_wav == scal_div(Num(K), wav)
                 drawn == plt_plot(inv_wav, ext)
             IN  IF drawn.raised # "none"
                 THEN [raised |-> drawn.raised, inv_wav |-> << >>, ext |-> << >>, lines |-> << >>]
                 ELSE [raised |-> "none", inv_wav |-> inv_wav, ext |-> ext, lines |-> drawn.lines]

\* Extinction as it would be if it read the B magnitude of the target
ExtinctionOtherBand(wav, flux1, flux2) ==
    LET V_rat == Div(B_dusty, V_nodust)
    IN  IF V_dusty.k = "unset" \/ V_nodust.k = "unset"
        THEN [raised |-> "NameError", inv_wav |-> << >>, ext |-> << >>, lines |-> << >>]
        ELSE IF BroadcastLen(Len(flux1), Len(flux2)) < 0
        THEN [raised |-> "ValueError", inv_wav |-> << >>, ext |-> << >>, lines |-> << >>]
        ELSE IF EBV.k = "unset"
        THEN [raised |-> "NameError", inv_wav |-> << >>, ext |-> << >>, lines |-> << >>]
        ELSE LET flux_rat == arr_div(flux1, flux2)
                 ext == div_scal(arr_log(scal_div(V_rat, flux_rat)), EBV)
                 inv_wav == scal_div(Num(K), wav)
                 drawn == plt_plot(inv_wav, ext)
             IN  IF drawn.raised # "none"
                 THEN [raised |-> drawn.raised, inv_wav |-> << >>, ext |-> << >>, lines |-> << >>]
                 ELSE [raised |-> "none", inv_wav |-> inv_wav, ext |-> ext, lines |-> drawn.lines]

\* Extinction as it would be if it plotted against the wavelength
ExtinctionPlotsWav(wav, flux1, flux2) ==
    LET V_rat == Div(V_dusty, V_nodust)
    IN  IF V_dusty.k = "unset" \/ V_nodust.k = "unset"
        THEN [raised |-> "NameError", inv_wav |-> << >>, ext |-> << >>, lines |-> << >>]
        ELSE IF BroadcastLen(Len(flux1), Len(flux2)) < 0
        THEN [raised |-> "ValueError", inv_wav |-> << >>, ext |-> << >>, lines |-> << >>]
        ELSE IF EBV.k = "unset"
        THEN [raised |-> "NameError", inv_wav |-> << >>, ext |-> << >>, lines |-> << >>]
        ELSE LET flux_rat == arr_div(flux1, flux2)
                 ext == div_scal(arr_log(scal_div(V_rat, flux_rat)), EBV)
                 inv_wav == scal_div(Num(K), wav)
                 drawn == plt_plot(wav, ext)
             IN  IF drawn.raised # "none"
                 THEN [raised |-> drawn.raised, inv_wav |-> << >>, ext |-> << >>, lines |-> << >>]
                 ELSE [raised |-> "none", inv_wav |-> inv_wav, ext |-> ext, lines |-> drawn.lines]

\* Extinction as it would be with the closing parenthesis of np.log misplaced:
\* np.log(V_rat/flux_rat/EBV)
ExtinctionLogOfAll(wav, flux1, flux2) ==
    LET V_rat == Div(V_dusty, V_nodust)
    IN  IF V_dusty.k = "unset" \/ V_nodust.k = "unset"
        THEN [raised |-> "NameError", inv_wav |-> << >>, ext |-> << >>, lines |-> << >>]
        ELSE IF BroadcastLen(Len(flux1), Len(flux2)) < 0
        THEN [raised |-> "ValueError", inv_wav |-> << >>, ext |-> << >>, lines |-> << >>]
        ELSE IF EBV.k = "unset"
        THEN [raised |-> "NameError", inv_wav |-> << >>, ext |-> << >>, lines |-> << >>]
        ELSE LET flux_rat == arr_div(flux1, flux2)
                 ext == arr_log(div_scal(scal_div(V_rat, flux_rat), EBV))
                 inv_wav == scal_div(Num(K), wav)
                 drawn == plt_plot(inv_wav, ext)
             IN  IF drawn.raised # "none"
                 THEN [raised |-> drawn.raised, inv_wav |-> << >>, ext |-> << >>, lines |-> << >>]
                 ELSE [raised |-> "none", inv_wav |-> inv_wav, ext |-> ext, lines |-> drawn.lines]

\* Extinction as it would be if the target flux were not divided by the
\* reference flux
ExtinctionTargetOnly(wav, flux1, flux2) ==
    LET V_rat == Div(V_dusty, V_nodust)
    IN  IF V_dusty.k = "unset" \/ V_nodust.k = "unset"
        THEN [raised |-> "NameError", inv_wav |-> << >>, ext |-> << >>, lines |-> << >>]
        ELSE IF BroadcastLen(Len(flux1), Len(flux2)) < 0
        THEN [raised |-> "ValueError", inv_wav |-> << >>, ext |-> << >>, lines |-> << >>]
        ELSE IF EBV.k = "unset"
        THEN [raised |-> "NameError", inv_wav |-> << >>, ext |-> << >>, lines |-> << >>]
        ELSE LET flux_rat == flux1
                 ext == div_scal(arr_log(scal_div(V_rat, flux_rat)), EBV)
                 inv_wav == scal_div(Num(K), wav)
                 drawn == plt_plot(inv_wav, ext)
             IN  IF drawn.raised # "none"
                 THEN [raised |-> drawn.raised, inv_wav |-> << >>, ext |-> << >>, lines |-> << >>]
                 ELSE [raised |-> "none", inv_wav |-> inv_wav, ext |-> ext, lines |-> drawn.lines]

\* Extinction as it would be if a normalization constant that is not assigned
\* were read as NaN instead of raising
ExtinctionUndefinedAsNaN(wav, flux1, flux2) ==
    IF BroadcastLen(Len(flux1), Len(flux2)) < 0
    THEN [raised |-> "ValueError", inv_wav |-> << >>, ext |-> << >>, lines |-> << >>]
    ELSE LET V_rat == IF V_dusty.k = "unset" \/ V_nodust.k = "unset"
                      THEN NaN ELSE Div(V_dusty, V_nodust)
             flux_rat == arr_div(flux1, flux2)
             ext == div_scal(arr_log(scal_div(V_rat, flux_rat)),
                             IF EBV.k = "unset" THEN NaN ELSE EBV)
             inv_wav == scal_div(Num(K), wav)
             drawn == plt_plot(inv_wav, ext)
         IN  IF drawn.raised # "none"
             THEN [raised |-> drawn.raised, inv_wav |-> << >>, ext |-> << >>, lines |-> << >>]
             ELSE [raised |-> "none", inv_wav |-> inv_wav, ext |-> ext, lines |-> drawn.lines]

Extinction(wav, flux1, flux2) ==
    LET V_rat == Div(V_dusty, V_nodust)
    IN  IF V_dusty.k = "unset" \/ V_nodust.k = "unset"
        THEN [raised |-> "NameError", inv_wav |-> << >>, ext |-> << >>, lines |-> << >>]
        ELSE IF BroadcastLen(Len(flux1), Len(flux2)) < 0
        THEN [raised |-> "ValueError", inv_wav |-> << >>, ext |-> << >>, lines |-> << >>]
        ELSE IF EBV.k = "unset"
        THEN [raised |-> "NameError", inv_wav |-> << >>, ext |-> << >>, lines |-> << >>]
        ELSE LET flux_rat == arr_div(flux1, flux2)
                 ext == div_scal(arr_log(scal_div(V_rat, flux_rat)), EBV)
                 inv_wav == scal_div(Num(K), wav)
                 drawn == plt_plot(inv_wav, ext)
             IN  IF drawn.raised # "none"
                 THEN [raised |-> drawn.raised, inv_wav |-> << >>, ext |-> << >>, lines |-> << >>]
                 ELSE [raised |-> "none", inv_wav |-> inv_wav, ext |-> ext, lines |-> drawn.lines]

\* the history entry of one invocation
Invocation(site, wav, flux1, flux2) ==
    [site |-> site, wav |-> wav, flux1 |-> flux1, flux2 |-> flux2,
     V_dusty |-> V_dusty, V_nodust |-> V_nodust, EBV |-> EBV,
     out |-> Extinction(wav, flux1, flux2)]

(***************************************************************************)
(* The inputs the model draws: file contents, photometry, crop counts.     *)
(***************************************************************************)
\* flux values: 1, 2, 0, -1, a large and a small magnitude
FluxList == << Two(0), Two(1), Zero(1), Neg(Two(0)), Two(BigExp), Two(-BigExp) >>
\* the flux column of n points that starts at position off of FluxList
FluxColumn(off, n) == [i \in 1..n |-> FluxList[((off + i - 1) % Len(FluxList)) + 1]]
\* the wavelength column of n points: first, first + 1000, ... (angstrom)
WavColumn(first, n) == [i \in 1..n |-> Num(first + 1000 * (i - 1))]
\* the spectra a file may hold
Spectra(firsts, offs) ==
    { [wav |-> WavColumn(f, n), flux |-> FluxColumn(o, n)] :
        f \in firsts, o \in offs, n \in 0..MaxLen }

FileNames == {"lw_dusty", "sw_dusty", "lw_nodust", "sw_nodust"}

\* a value no cell has assigned yet
Unset == [k |-> "unset", s |-> 1, p |-> 0, q |-> 1]

\* the B and V magnitudes the lookup service may return
PhotTables == { [V |-> Num(1), B |-> Num(1)], [V |-> Num(2), B |-> Num(1)],
                [V |-> Num(1), B |-> Num(2)] }

(***************************************************************************)
(* The session: a fresh kernel, the four files already downloaded.         *)
(***************************************************************************)
\* nothing queried, listed, filtered or downloaded in this kernel; every
\* path holds a readable file
ArchiveIdle ==
    /\ mast = [t \in {"dusty", "nodust"} |-> << >>]
    /\ obs_table_nodust = << >> /\ data_products_nodust = << >>
    /\ filtered_products_nodust = << >> /\ manifest_nodust = << >>
    /\ obs_table_dusty = << >> /\ data_products_dusty = << >> /\ manifest_dusty = << >>
    /\ filters = << >>
    /\ unreadable = {}

KernelFresh ==
    /\ error = "none"
    /\ wav_lw_dusty = << >> /\ flux_lw_dusty = << >>
    /\ wav_sw_dusty = << >> /\ flux_sw_dusty = << >>
    /\ wav_lw_nodust = << >> /\ flux_lw_nodust = << >>
    /\ wav_sw_nodust = << >> /\ flux_sw_nodust = << >>
    /\ table_dusty = [V |-> Unset, B |-> Unset]
    /\ table_nodust = [V |-> Unset, B |-> Unset]
    /\ V_dusty = Unset /\ B_dusty = Unset
    /\ V_nodust = Unset /\ B_nodust = Unset /\ EBV = Unset
    /\ s_crop = 0 /\ l_crop = 0
    /\ s_inv_wav = << >> /\ s_ext = << >>
    /\ l_inv_wav = << >> /\ l_ext = << >>
    /\ sink = << >>
    /\ calls = << >>
    /\ reruns = 0
    /\ ArchiveIdle

\* the four files of a download
Download(ld, sd, ln, sn) ==
    [f \in FileNames |->
        CASE f = "lw_dusty" -> ld [] f = "sw_dusty" -> sd
          [] f = "lw_nodust" -> ln [] f = "sw_nodust" -> sn]

Init ==
    /\ pc = "extract"
    /\ \E ld \in Spectra({1000}, {0}), sd \in Spectra({1000}, {0, 3}),
          ln \in Spectra({1000, 2000}, {1}), sn \in Spectra({1000}, {1}) :
          files = Download(ld, sd, ln, sn)
    /\ KernelFresh

\* def extractData(filename): the wavelength and flux columns of the file
extractData(filename) == << files[filename].wav, files[filename].flux >>

\* a statement raised: the run stops there
Raise(exc) == pc' = "halt" /\ error' = exc

\* the order in which the extraction cell reads the four files
ExtractOrder == << "lw_dusty", "sw_dusty", "lw_nodust", "sw_nodust" >>

\* the position in ExtractOrder of the first file fits.open cannot read
\* (one past the end when all can be read)
FirstUnreadable ==
    IF \E i \in DOMAIN ExtractOrder : ExtractOrder[i] \in unreadable
    THEN CHOOSE i \in DOMAIN ExtractOrder :
            /\ ExtractOrder[i] \in unreadable
            /\ \A j \in 1..(i - 1) : ExtractOrder[j] \notin unreadable
    ELSE Len(ExtractOrder) + 1

\* the cell that extracts the four spectra and makes the rough plot; a file
\* that cannot be read raises where it is opened, the statements before it
\* have taken effect
ExtractCell ==
    /\ pc = "extract"
    /\ LET k == FirstUnreadable
       IN  /\ wav_lw_dusty' = IF k > 1 THEN extractData("lw_dusty")[1] ELSE wav_lw_dusty
           /\ flux_lw_dusty' = IF k > 1 THEN extractData("lw_dusty")[2] ELSE flux_lw_dusty
           /\ wav_sw_dusty' = IF k > 2 THEN extractData("sw_dusty")[1] ELSE wav_sw_dusty
           /\ flux_sw_dusty' = IF k > 2 THEN extractData("sw_dusty")[2] ELSE flux_sw_dusty
           /\ wav_lw_nodust' = IF k > 3 THEN extractData("lw_nodust")[1] ELSE wav_lw_nodust
           /\ flux_lw_nodust' = IF k > 3 THEN extractData("lw_nodust")[2] ELSE flux_lw_nodust
           /\ wav_sw_nodust' = IF k > 4 THEN extractData("sw_nodust")[1] ELSE wav_sw_nodust
           /\ flux_sw_nodust' = IF k > 4 THEN extractData("sw_nodust")[2] ELSE flux_sw_nodust
           /\ LET p1 == plt_plot(wav_lw_nodust', arr_log10(flux_lw_nodust'))
                  p2 == plt_plot(wav_lw_dusty', arr_log10(flux_lw_dusty'))
              IN  IF k <= Len(ExtractOrder) THEN Raise("OSError") /\ sink' = sink
                  ELSE IF p1.raised # "none" THEN Raise(p1.raised) /\ sink' = sink
                  ELSE IF p2.raised # "none"
                       THEN Raise(p2.raised) /\ sink' = sink \o p1.lines
                  ELSE /\ pc' = "align" /\ error' = error
                       /\ sink' = sink \o p1.lines \o p2.lines
    /\ UNCHANGED << files, archive, photometry, norms, crops, curves, calls, reruns >>

\* AlignCell as it would be if it cut to the length the dusty spectrum was
\* loaded with instead of the length it has
AlignCellToLoadedLength ==
    /\ pc = "align"
    /\ wav_lw_nodust' = PySliceTo(wav_lw_nodust, Len(files["lw_dusty"].wav))
    /\ flux_lw_nodust' = PySliceTo(flux_lw_nodust, Len(files["lw_dusty"].flux))
    /\ pc' = "plot"
    /\ UNCHANGED << error, files, archive, wav_lw_dusty, flux_lw_dusty, wav_sw_dusty,
                    flux_sw_dusty, wav_sw_nodust, flux_sw_nodust, photometry, norms, crops,
                    curves, sink, calls, reruns >>

\* AlignCell as it would be if it cut whichever spectrum is the longer one
AlignCellToShorter ==
    /\ pc = "align"
    /\ wav_lw_nodust' = PySliceTo(wav_lw_nodust, Len(wav_lw_dusty))
    /\ flux_lw_nodust' = PySliceTo(flux_lw_nodust, Len(flux_lw_dusty))
    /\ wav_lw_dusty' = PySliceTo(wav_lw_dusty, Len(wav_lw_nodust))
    /\ flux_lw_dusty' = PySliceTo(flux_lw_dusty, Len(flux_lw_nodust))
    /\ pc' = "plot"
    /\ UNCHANGED << error, files, archive, wav_sw_dusty, flux_sw_dusty, wav_sw_nodust,
                    flux_sw_nodust, photometry, norms, crops, curves, sink, calls, reruns >>

\* AlignCell as it would be if it dropped the last point of the no-dust
\* spectrum whenever that spectrum is not the shorter one
AlignCellDropsLast ==
    /\ pc = "align"
    /\ IF Len(wav_lw_nodust) >= Len(wav_lw_dusty)
       THEN /\ wav_lw_nodust' = PySliceTo(wav_lw_nodust, -1)
            /\ flux_lw_nodust' = PySliceTo(flux_lw_nodust, -1)
       ELSE UNCHANGED << wav_lw_nodust, flux_lw_nodust >>
    /\ pc' = "plot"
    /\ UNCHANGED << error, files, archive, wav_lw_dusty, flux_lw_dusty, wav_sw_dusty,
                    flux_sw_dusty, wav_sw_nodust, flux_sw_nodust, photometry, norms, crops,
                    curves, sink, calls, reruns >>

\* AlignCell as it would be if it shortened the wavelengths only
AlignCellWavOnly ==
    /\ pc = "align"
    /\ wav_lw_nodust' = PySliceTo(wav_lw_nodust, Len(wav_lw_dusty))
    /\ pc' = "plot"
    /\ UNCHANGED << error, files, archive, wav_lw_dusty, flux_lw_dusty, wav_sw_dusty,
                    flux_sw_dusty, flux_lw_nodust, wav_sw_nodust, flux_sw_nodust, photometry,
                    norms, crops, curves, sink, calls, reruns >>

\* AlignCell as it would be if it indexed the last point to keep instead of
\* slicing: IndexError where the no-dust spectrum is the shorter one
AlignCellIndexed ==
    /\ pc = "align"
    /\ IF Len(wav_lw_dusty) > Len(wav_lw_nodust)
       THEN Raise("IndexError") /\ UNCHANGED << wav_lw_nodust, flux_lw_nodust >>
       ELSE /\ wav_lw_nodust' = PySliceTo(wav_lw_nodust, Len(wav_lw_dusty))
            /\ flux_lw_nodust' = PySliceTo(flux_lw_nodust, Len(flux_lw_dusty))
            /\ pc' = "plot" /\ error' = error
    /\ UNCHANGED << files, archive, wav_lw_dusty, flux_lw_dusty, wav_sw_dusty, flux_sw_dusty,
                    wav_sw_nodust, flux_sw_nodust, photometry, norms, crops, curves,
                    sink, calls, reruns >>

\* the alignment cell: "Shorten the lw_nodust data so it matches the dusty data"
AlignCell ==
    /\ pc = "align"
    /\ wav_lw_nodust' = PySliceTo(wav_lw_nodust, Len(wav_lw_dusty))
    /\ flux_lw_nodust' = PySliceTo(flux_lw_nodust, Len(flux_lw_dusty))
    /\ pc' = "plot"
    /\ UNCHANGED << error, files, archive, wav_lw_dusty, flux_lw_dusty, wav_sw_dusty, flux_sw_dusty,
                    wav_sw_nodust, flux_sw_nodust, photometry, norms, crops, curves,
                    sink, calls, reruns >>

\* def Plot(wav, flux, style, lbl)
Plot(wav, flux) == plt_plot(scal_div(Num(K), wav), arr_log10(flux))

\* the cell that plots the four spectra
PlotCell ==
    /\ pc = "plot"
    /\ LET p1 == Plot(wav_lw_dusty, flux_lw_dusty)
           p2 == Plot(wav_sw_dusty, flux_sw_dusty)
           p3 == Plot(wav_lw_nodust, flux_lw_nodust)
           p4 == Plot(wav_sw_nodust, flux_sw_nodust)
       IN  IF p1.raised # "none" THEN Raise(p1.raised) /\ sink' = sink
           ELSE IF p2.raised # "none" THEN Raise(p2.raised) /\ sink' = sink \o p1.lines
           ELSE IF p3.raised # "none"
                THEN Raise(p3.raised) /\ sink' = sink \o p1.lines \o p2.lines
           ELSE IF p4.raised # "none"
                THEN Raise(p4.raised) /\ sink' = sink \o p1.lines \o p2.lines \o p3.lines
           ELSE /\ pc' = "simbad" /\ error' = error
                /\ sink' = sink \o p1.lines \o p2.lines \o p3.lines \o p4.lines
    /\ UNCHANGED << files, archive, arrays, photometry, norms, crops, curves, calls, reruns >>

\* SimbadCells as it would be if the extinction cell stood before the
\* normalization cell
SimbadCellsThenExtinction ==
    /\ pc = "simbad"
    /\ table_dusty' \in PhotTables
    /\ table_nodust' \in PhotTables
    /\ pc' = "ext_s"
    /\ UNCHANGED << error, files, archive, arrays, norms, crops, curves, sink, calls, reruns >>

\* the two photometry lookups
SimbadCells ==
    /\ pc = "simbad"
    /\ table_dusty' \in PhotTables
    /\ table_nodust' \in PhotTables
    /\ pc' = "norm"
    /\ UNCHANGED << error, files, archive, arrays, norms, crops, curves, sink, calls, reruns >>

\* the cell that computes the normalization constants
NormCell ==
    /\ pc = "norm"
    /\ V_dusty' = table_dusty.V
    /\ B_dusty' = table_dusty.B
    /\ V_nodust' = table_nodust.V
    /\ B_nodust' = table_nodust.B
    /\ EBV' = Sub(Sub(B_dusty', V_dusty'), Sub(B_nodust', V_nodust'))
    /\ pc' = "ext_s"
    /\ UNCHANGED << error, files, archive, arrays, photometry, crops, curves, sink, calls, reruns >>

\* one call statement "x_inv_wav, x_ext = Extinction(wav, flux1, flux2)"
\* for the short-wavelength pair
CallShort(site, wav, flux1, flux2, next) ==
    LET r == Extinction(wav, flux1, flux2)
    IN  /\ calls' = Append(calls, Invocation(site, wav, flux1, flux2))
        /\ sink' = sink \o r.lines
        /\ IF r.raised # "none"
           THEN Raise(r.raised) /\ UNCHANGED curves
           ELSE /\ pc' = next /\ error' = error
                /\ s_inv_wav' = r.inv_wav /\ s_ext' = r.ext
                /\ UNCHANGED << l_inv_wav, l_ext >>

\* the same for the long-wavelength pair
CallLong(site, wav, flux1, flux2, next) ==
    LET r == Extinction(wav, flux1, flux2)
    IN  /\ calls' = Append(calls, Invocation(site, wav, flux1, flux2))
        /\ sink' = sink \o r.lines
        /\ IF r.raised # "none"
           THEN Raise(r.raised) /\ UNCHANGED curves
           ELSE /\ pc' = next /\ error' = error
                /\ l_inv_wav' = r.inv_wav /\ l_ext' = r.ext
                /\ UNCHANGED << s_inv_wav, s_ext >>

\* the extinction cell, first call
ExtShort ==
    /\ pc = "ext_s"
    /\ CallShort("ext_s", wav_sw_dusty, flux_sw_dusty, flux_sw_nodust, "ext_l")
    /\ UNCHANGED << files, archive, arrays, photometry, norms, crops, reruns >>

\* the extinction cell, second call
ExtLong ==
    /\ pc = "ext_l"
    /\ CallLong("ext_l", wav_lw_dusty, flux_lw_dusty, flux_lw_nodust, "crop_set")
    /\ UNCHANGED << files, archive, arrays, photometry, norms, crops, reruns >>

\* the crop cell: "How many points do we want to remove from either end"
CropSet ==
    /\ pc = "crop_set"
    /\ s_crop' \in 0..MaxCrop
    /\ l_crop' \in { -n : n \in 0..MaxCrop }
    /\ pc' = "crop_s"
    /\ UNCHANGED << error, files, archive, arrays, photometry, norms, curves, sink, calls, reruns >>

\* CropShort as it would be if the cell assigned the cropped arrays back to
\* the loaded ones
CropShortInPlace ==
    /\ pc = "crop_s"
    /\ wav_sw_dusty' = PySliceFrom(wav_sw_dusty, s_crop)
    /\ flux_sw_dusty' = PySliceFrom(flux_sw_dusty, s_crop)
    /\ flux_sw_nodust' = PySliceFrom(flux_sw_nodust, s_crop)
    /\ CallShort("crop_s", wav_sw_dusty', flux_sw_dusty', flux_sw_nodust', "crop_l")
    /\ UNCHANGED << files, archive, wav_lw_dusty, flux_lw_dusty, wav_lw_nodust, flux_lw_nodust,
                    wav_sw_nodust, photometry, norms, crops, reruns >>

\* the crop cell, first call: the short-wavelength arrays without their first points
CropShort ==
    /\ pc = "crop_s"
    /\ CallShort("crop_s", PySliceFrom(wav_sw_dusty, s_crop), PySliceFrom(flux_sw_dusty, s_crop),
                 PySliceFrom(flux_sw_nodust, s_crop), "crop_l")
    /\ UNCHANGED << files, archive, arrays, photometry, norms, crops, reruns >>

\* CropLong as it would be if the reference flux lost one point more than the
\* other two arrays
CropLongUneven ==
    /\ pc = "crop_l"
    /\ CallLong("crop_l", PySliceTo(wav_lw_dusty, l_crop), PySliceTo(flux_lw_dusty, l_crop),
                PySliceTo(flux_lw_nodust, l_crop - 1), "done")
    /\ UNCHANGED << files, archive, arrays, photometry, norms, crops, reruns >>

\* the crop cell, second call: the long-wavelength arrays without their last points
CropLong ==
    /\ pc = "crop_l"
    /\ CallLong("crop_l", PySliceTo(wav_lw_dusty, l_crop), PySliceTo(flux_lw_dusty, l_crop),
                PySliceTo(flux_lw_nodust, l_crop), "done")
    /\ UNCHANGED << files, archive, arrays, photometry, norms, crops, reruns >>

Next ==
    \/ ExtractCell \/ AlignCell \/ PlotCell \/ SimbadCells \/ NormCell
    \/ ExtShort \/ ExtLong \/ CropSet \/ CropShort \/ CropLong

\* one run of the notebook from top to bottom
Spec == Init /\ [][Next]_vars

(***************************************************************************)
(* An interactive session: after the extinction cell the user goes back to *)
(* an earlier cell and executes the notebook from there again.             *)
(***************************************************************************)
RerunCells == {"extract", "align", "simbad", "ext_s"}

Rerun ==
    /\ pc = "crop_set"
    /\ reruns < MaxReruns
    /\ reruns' = reruns + 1
    /\ pc' \in RerunCells
    /\ UNCHANGED << error, files, archive, arrays, photometry, norms, crops, curves, sink, calls >>

InitSession ==
    /\ pc = "extract"
    /\ \E ld \in Spectra({1000}, {0}), ln \in Spectra({1000}, {1}) :
          files = Download(ld, [wav |-> WavColumn(1000, MaxLen), flux |-> FluxColumn(0, MaxLen)],
                           ln, [wav |-> WavColumn(1000, MaxLen), flux |-> FluxColumn(1, MaxLen)])
    /\ KernelFresh

NextSession ==
    \/ ExtractCell \/ AlignCell \/ PlotCell \/ SimbadCells \/ NormCell
    \/ ExtShort \/ ExtLong \/ Rerun

SpecSession == InitSession /\ [][NextSession]_vars

(***************************************************************************)
(* The alignment cell executed again: the spectra are extracted, the user  *)
(* executes the alignment cell, then goes back and executes it once more.  *)
(***************************************************************************)
InitAlign ==
    /\ pc = "align"
    /\ error = "none"
    /\ \E ld \in Spectra({1000}, {0}), sd \in Spectra({1000}, {0, 3}),
          ln \in Spectra({1000, 2000}, {1}) :
          /\ files = Download(ld, sd, ln, [wav |-> WavColumn(1000, 2),
                                           flux |-> FluxColumn(1, 2)])
          /\ wav_lw_dusty = ld.wav /\ flux_lw_dusty = ld.flux
          /\ wav_sw_dusty = sd.wav /\ flux_sw_dusty = sd.flux
          /\ wav_lw_nodust = ln.wav /\ flux_lw_nodust = ln.flux
    /\ wav_sw_nodust = WavColumn(1000, 2) /\ flux_sw_nodust = FluxColumn(1, 2)
    /\ table_dusty = [V |-> Unset, B |-> Unset]
    /\ table_nodust = [V |-> Unset, B |-> Unset]
    /\ V_dusty = Unset /\ B_dusty = Unset
    /\ V_nodust = Unset /\ B_nodust = Unset /\ EBV = Unset
    /\ s_crop = 0 /\ l_crop = 0
    /\ s_inv_wav = << >> /\ s_ext = << >>
    /\ l_inv_wav = << >> /\ l_ext = << >>
    /\ sink = << >>
    /\ calls = << >>
    /\ reruns = 0
    /\ ArchiveIdle

\* the user goes back to the alignment cell right after it has run
AlignAgain ==
    /\ pc = "plot"
    /\ reruns < MaxReruns
    /\ reruns' = reruns + 1
    /\ pc' = "align"
    /\ UNCHANGED << error, files, archive, arrays, photometry, norms, crops, curves, sink,
                    calls >>

NextAlign == AlignCell \/ AlignAgain

SpecAlign == InitAlign /\ [][NextAlign]_vars

(***************************************************************************)
(* Alignment and front crop in either order: the long-wavelength spectra   *)
(* are extracted and the user applies the front crop of the crop cell,     *)
(* x[s_crop:], to them once, before or after the alignment cell.           *)
(***************************************************************************)
InitCommute ==
    /\ pc \in {"crop_first", "align"}
    /\ error = "none"
    /\ \E ld \in Spectra({1000}, {0}), ln \in Spectra({1000, 2000}, {1}) :
          /\ files = Download(ld, [wav |-> << >>, flux |-> << >>],
                              ln, [wav |-> << >>, flux |-> << >>])
          /\ wav_lw_dusty = ld.wav /\ flux_lw_dusty = ld.flux
          /\ wav_lw_nodust = ln.wav /\ flux_lw_nodust = ln.flux
    /\ wav_sw_dusty = << >> /\ flux_sw_dusty = << >>
    /\ wav_sw_nodust = << >> /\ flux_sw_nodust = << >>
    /\ table_dusty = [V |-> Unset, B |-> Unset]
    /\ table_nodust = [V |-> Unset, B |-> Unset]
    /\ V_dusty = Unset /\ B_dusty = Unset
    /\ V_nodust = Unset /\ B_nodust = Unset /\ EBV = Unset
    /\ s_crop \in 0..MaxCrop /\ l_crop = 0
    /\ s_inv_wav = << >> /\ s_ext = << >>
    /\ l_inv_wav = << >> /\ l_ext = << >>
    /\ sink = << >>
    /\ calls = << >>
    /\ reruns = 0
    /\ ArchiveIdle

\* the front crop x[s_crop:] assigned to the four long-wavelength arrays,
\* once, before the alignment cell or after it (reruns counts this execution)
CropFrontCell ==
    /\ pc \in {"crop_first", "plot"}
    /\ reruns = 0
    /\ reruns' = 1
    /\ wav_lw_dusty' = PySliceFrom(wav_lw_dusty, s_crop)
    /\ flux_lw_dusty' = PySliceFrom(flux_lw_dusty, s_crop)
    /\ wav_lw_nodust' = PySliceFrom(wav_lw_nodust, s_crop)
    /\ flux_lw_nodust' = PySliceFrom(flux_lw_nodust, s_crop)
    /\ pc' = IF pc = "crop_first" THEN "align" ELSE "plot"
    /\ UNCHANGED << error, files, archive, wav_sw_dusty, flux_sw_dusty, wav_sw_nodust,
                    flux_sw_nodust, photometry, norms, crops, curves, sink, calls >>

NextCommute == AlignCell \/ CropFrontCell

SpecCommute == InitCommute /\ [][NextCommute]_vars

(***************************************************************************)
(* Wavelength columns of any shape: the spectra are extracted and the      *)
(* normalization constants assigned; the wavelengths of the dusty spectra  *)
(* and of the long-wavelength no-dust spectrum are increasing, constant,   *)
(* decreasing or negative in places.  The alignment, extinction and crop   *)
(* cells are executed.                                                     *)
(***************************************************************************)
\* the wavelength columns of at most MaxLen points over the given values
WavColumns(values) == UNION { [1..n -> values] : n \in 0..MaxLen }

InitMono ==
    /\ pc = "align"
    /\ error = "none"
    /\ \E wd \in WavColumns({Num(-1000), Num(1000), Num(2000)}),
          wn \in WavColumns({Num(1000), Num(2000)}) :
          LET d == [wav |-> wd, flux |-> FluxColumn(0, Len(wd))]
              n == [wav |-> wn, flux |-> FluxColumn(1, Len(wn))]
              sn == [wav |-> wd, flux |-> FluxColumn(1, Len(wd))]
          IN  /\ files = Download(d, d, n, sn)
              /\ wav_lw_dusty = d.wav /\ flux_lw_dusty = d.flux
              /\ wav_sw_dusty = d.wav /\ flux_sw_dusty = d.flux
              /\ wav_lw_nodust = n.wav /\ flux_lw_nodust = n.flux
              /\ wav_sw_nodust = sn.wav /\ flux_sw_nodust = sn.flux
    /\ table_dusty = [V |-> Num(2), B |-> Num(1)]
    /\ table_nodust = [V |-> Num(1), B |-> Num(1)]
    /\ V_dusty = Num(2) /\ B_dusty = Num(1)
    /\ V_nodust = Num(1) /\ B_nodust = Num(1) /\ EBV = Num(-1)
    /\ s_crop = 0 /\ l_crop = 0
    /\ s_inv_wav = << >> /\ s_ext = << >>
    /\ l_inv_wav = << >> /\ l_ext = << >>
    /\ sink = << >>
    /\ calls = << >>
    /\ reruns = 0
    /\ ArchiveIdle

\* the user goes from the alignment cell's output straight to the extinction
\* cell
ToExtinction ==
    /\ pc = "plot"
    /\ pc' = "ext_s"
    /\ UNCHANGED << error, files, archive, arrays, photometry, norms, crops, curves, sink,
                    calls, reruns >>

NextMono ==
    \/ AlignCell \/ ToExtinction
    \/ ExtShort \/ ExtLong \/ CropSet \/ CropShort \/ CropLong

SpecMono == InitMono /\ [][NextMono]_vars

(***************************************************************************)
(* Cells executed out of order: once the spectra are extracted the user    *)
(* may skip cells, and may go on with an earlier or later cell after an    *)
(* exception stopped the run.                                              *)
(***************************************************************************)
\* the user leaves out the cells up to the photometry lookups or up to the
\* extinction cell
SkipAhead ==
    /\ pc \in {"align", "plot", "simbad"}
    /\ pc' \in {"simbad", "ext_s"}
    /\ pc' # pc
    /\ UNCHANGED << error, files, archive, arrays, photometry, norms, crops, curves, sink, calls,
                    reruns >>

\* after an exception the user executes the notebook again from a cell
Resume ==
    /\ pc = "halt"
    /\ reruns < MaxReruns
    /\ reruns' = reruns + 1
    /\ pc' \in {"align", "simbad", "ext_s"}
    /\ error' = "none"
    /\ UNCHANGED << files, archive, arrays, photometry, norms, crops, curves, sink, calls >>

InitOrder ==
    /\ pc = "extract"
    /\ files = Download([wav |-> WavColumn(1000, 2), flux |-> FluxColumn(0, 2)],
                        [wav |-> WavColumn(1000, 2), flux |-> FluxColumn(0, 2)],
                        [wav |-> WavColumn(1000, 3), flux |-> FluxColumn(1, 3)],
                        [wav |-> WavColumn(1000, 2), flux |-> FluxColumn(1, 2)])
    /\ KernelFresh

NextOrder ==
    \/ ExtractCell \/ AlignCell \/ PlotCell \/ SimbadCells \/ NormCell
    \/ ExtShort \/ ExtLong \/ CropSet \/ CropShort \/ CropLong
    \/ SkipAhead \/ Resume

SpecOrder == InitOrder /\ [][NextOrder]_vars

(***************************************************************************)
(* The whole notebook, from the archive query on: the observations of the  *)
(* two targets are queried, their products listed, filtered and            *)
(* downloaded, the paths taken from the manifests, then the cells above.   *)
(* The archive and the network are the environment: a request may fail,    *)
(* a file of a download may be cached, fetched or fail.                    *)
(***************************************************************************)
\* a row of a product table: file <target, band, kind, extension> of the
\* observation <target, band>
Product(t, b, type, kind, ext, lvl, mrp) ==
    [obsid |-> << t, b >>, productType |-> type,
     productFilename |-> << t, b, kind, ext >>, calib_level |-> lvl, mrp |-> mrp]

\* the extracted spectrum, a calibration file and a preview of an observation
Science(t, b) == Product(t, b, "SCIENCE", "mxlo", ".fits", 2, TRUE)
Auxiliary(t, b) == Product(t, b, "AUXILIARY", "raw", ".fits", 1, FALSE)
Preview(t, b) == Product(t, b, "PREVIEW", "mxlo", ".gif", 2, FALSE)

\* what the archive may list for a target: long then short wavelength, short
\* then long, one observation only, no science product, no observation
ProductLists(t) ==
    { << Science(t, "lw"), Auxiliary(t, "lw"), Science(t, "sw"), Preview(t, "sw") >>,
      << Science(t, "sw"), Science(t, "lw"), Auxiliary(t, "lw") >>,
      << Science(t, "lw"), Preview(t, "lw") >>,
      << Auxiliary(t, "lw") >>,
      << >> }

\* the spectrum in the FITS file at a path
SpectrumAt(path) ==
    LET n == IF path[1] = "nodust" /\ path[2] = "lw" THEN 3 ELSE 2
    IN  [wav |-> WavColumn(IF path[2] = "lw" THEN 2000 ELSE 1000, n),
         flux |-> FluxColumn(IF path[1] = "dusty" THEN 0 ELSE 1, n)]

\* the elements of a sequence in the order of their first occurrence
RECURSIVE Distinct(_)
Distinct(seq) ==
    IF seq = << >> THEN << >>
    ELSE LET r == Distinct(SubSeq(seq, 1, Len(seq) - 1))
             x == seq[Len(seq)]
         IN  IF \E i \in DOMAIN r : r[i] = x THEN r ELSE Append(r, x)

\* Observations.query_criteria(obs_collection="IUE", objectname=..., ...):
\* the observations of the target
query_criteria(objectname) ==
    Distinct([i \in DOMAIN mast[objectname] |-> mast[objectname][i].obsid])

\* Observations.get_product_list(obs_table): the products of the observations
get_product_list(obs_table) ==
    SelectSeq(mast["nodust"] \o mast["dusty"],
              LAMBDA p : \E i \in DOMAIN obs_table : obs_table[i] = p.obsid)

\* productType='SCIENCE', extension='.fits'
IUEFilters ==
    << [field |-> "productType", options |-> << "SCIENCE" >>],
       [field |-> "extension", options |-> << << ".fits" >> >>] >>

\* the kernel's variables no archive cell assigns
kernel == << arrays, photometry, norms, crops, curves, sink, calls, reruns >>

InitRun ==
    /\ pc = "query_nodust"
    /\ error = "none"
    /\ files = Download([wav |-> << >>, flux |-> << >>], [wav |-> << >>, flux |-> << >>],
                        [wav |-> << >>, flux |-> << >>], [wav |-> << >>, flux |-> << >>])
    /\ wav_lw_dusty = << >> /\ flux_lw_dusty = << >>
    /\ wav_sw_dusty = << >> /\ flux_sw_dusty = << >>
    /\ wav_lw_nodust = << >> /\ flux_lw_nodust = << >>
    /\ wav_sw_nodust = << >> /\ flux_sw_nodust = << >>
    /\ table_dusty = [V |-> Unset, B |-> Unset]
    /\ table_nodust = [V |-> Unset, B |-> Unset]
    /\ V_dusty = Unset /\ B_dusty = Unset
    /\ V_nodust = Unset /\ B_nodust = Unset /\ EBV = Unset
    /\ s_crop = 0 /\ l_crop = 0
    /\ s_inv_wav = << >> /\ s_ext = << >>
    /\ l_inv_wav = << >> /\ l_ext = << >>
    /\ sink = << >>
    /\ calls = << >>
    /\ reruns = 0
    /\ \E d \in ProductLists("dusty"), n \in ProductLists("nodust") :
          mast = [t \in {"dusty", "nodust"} |-> IF t = "dusty" THEN d ELSE n]
    /\ obs_table_nodust = << >> /\ data_products_nodust = << >>
    /\ filtered_products_nodust = << >> /\ manifest_nodust = << >>
    /\ obs_table_dusty = << >> /\ data_products_dusty = << >> /\ manifest_dusty = << >>
    /\ filters = << >>
    /\ unreadable = {}

\* QueryNodust as it would be if the cell caught the failure and went on
\* with an empty table
QueryNodustRecovers ==
    /\ pc = "query_nodust"
    /\ \/ /\ obs_table_nodust' = query_criteria("nodust")
          /\ pc' = "products_nodust" /\ error' = error
       \/ /\ obs_table_nodust' = << >>
          /\ pc' = "products_nodust" /\ error' = "RemoteServiceError"
    /\ UNCHANGED << files, kernel, mast, data_products_nodust, filtered_products_nodust,
                    manifest_nodust, obs_table_dusty, data_products_dusty, manifest_dusty,
                    filters, unreadable >>

\* obs_table_nodust = Observations.query_criteria(...)
QueryNodust ==
    /\ pc = "query_nodust"
    /\ \/ /\ obs_table_nodust' = query_criteria("nodust")
          /\ pc' = "products_nodust" /\ error' = error
       \/ /\ Raise("RemoteServiceError")
          /\ UNCHANGED obs_table_nodust
    /\ UNCHANGED << files, kernel, mast, data_products_nodust, filtered_products_nodust,
                    manifest_nodust, obs_table_dusty, data_products_dusty, manifest_dusty,
                    filters, unreadable >>

\* data_products_nodust = Observations.get_product_list(obs_table_nodust)
ProductsNodust ==
    /\ pc = "products_nodust"
    /\ \/ /\ Len(obs_table_nodust) > 0
          /\ data_products_nodust' = get_product_list(obs_table_nodust)
          /\ pc' = "filter_nodust" /\ error' = error
       \/ /\ Raise(IF Len(obs_table_nodust) = 0 THEN "InvalidQueryError"
                   ELSE "RemoteServiceError")
          /\ UNCHANGED data_products_nodust
    /\ UNCHANGED << files, kernel, mast, obs_table_nodust, filtered_products_nodust,
                    manifest_nodust, obs_table_dusty, data_products_dusty, manifest_dusty,
                    filters, unreadable >>

\* filtered_products_nodust = Observations.filter_products(data_products_nodust,
\*                                productType='SCIENCE', extension='.fits')
FilterNodust ==
    /\ pc = "filter_nodust"
    /\ filtered_products_nodust' = filter_products(data_products_nodust, FALSE, IUEFilters)
    /\ filters' = IUEFilters
    /\ pc' = "download_nodust"
    /\ UNCHANGED << error, files, kernel, mast, obs_table_nodust, data_products_nodust,
                    manifest_nodust, obs_table_dusty, data_products_dusty, manifest_dusty,
                    unreadable >>

\* manifest_nodust = Observations.download_products(filtered_products_nodust)
DownloadNodust ==
    /\ pc = "download_nodust"
    /\ \/ /\ \E conds \in [1..Len(filtered_products_nodust) -> FileConditions] :
                manifest_nodust' =
                    download_products(filtered_products_nodust, FALSE, << >>, conds)
          /\ filters' = << >>
          /\ pc' = "dusty" /\ error' = error
       \/ /\ Raise("RemoteServiceError")
          /\ UNCHANGED << manifest_nodust, filters >>
    /\ UNCHANGED << files, kernel, mast, obs_table_nodust, data_products_nodust,
                    filtered_products_nodust, obs_table_dusty, data_products_dusty,
                    manifest_dusty, unreadable >>

\* the cell of the dusty target: query, product list and download with the
\* filters passed to download_products, one statement after the other; a
\* statement that raises leaves the assignments before it in place
DustyCell ==
    /\ pc = "dusty"
    /\ \E failing \in {"none", "query", "list", "download"} :
          LET obs == query_criteria("dusty")
              products == get_product_list(obs)
              selected == filter_products(products, FALSE, IUEFilters)
          IN  IF failing = "query"
              THEN /\ Raise("RemoteServiceError")
                   /\ UNCHANGED << obs_table_dusty, data_products_dusty, manifest_dusty,
                                   filters >>
              ELSE IF Len(obs) = 0 \/ failing = "list"
              THEN /\ obs_table_dusty' = obs
                   /\ Raise(IF Len(obs) = 0 THEN "InvalidQueryError"
                            ELSE "RemoteServiceError")
                   /\ UNCHANGED << data_products_dusty, manifest_dusty, filters >>
              ELSE IF failing = "download"
              THEN /\ obs_table_dusty' = obs
                   /\ data_products_dusty' = products
                   /\ Raise("RemoteServiceError")
                   /\ UNCHANGED << manifest_dusty, filters >>
              ELSE /\ obs_table_dusty' = obs
                   /\ data_products_dusty' = products
                   /\ \E conds \in [1..Len(selected) -> FileConditions] :
                         manifest_dusty' =
                             download_products(products, FALSE, IUEFilters, conds)
                   /\ filters' = IUEFilters
                   /\ pc' = "paths" /\ error' = error
    /\ UNCHANGED << files, kernel, mast, obs_table_nodust, data_products_nodust,
                    filtered_products_nodust, manifest_nodust, unreadable >>

\* the manifest row a file name is taken from: "The first path in the list
\* is for the 'long wavelength' data"
RowOf(f) ==
    CASE f = "lw_dusty" -> manifest_dusty[1]
      [] f = "sw_dusty" -> manifest_dusty[2]
      [] f = "lw_nodust" -> manifest_nodust[1]
      [] f = "sw_nodust" -> manifest_nodust[2]

\* no readable FITS file is at the path of the row: the download of the file
\* failed, or the file is not a FITS file
NoFitsAt(row) == row.Status = "ERROR" \/ ~EndsWith(row.LocalPath, << ".fits" >>)

\* the cell that pulls the file paths from the manifests and prints the
\* information of the first file
PathsCell ==
    /\ pc = "paths"
    /\ IF manifest_dusty = << >> \/ manifest_nodust = << >>
       THEN Raise("TypeError") /\ UNCHANGED << files, unreadable >>
       ELSE IF Len(manifest_dusty) < 2 \/ Len(manifest_nodust) < 2
       THEN Raise("IndexError") /\ UNCHANGED << files, unreadable >>
       ELSE /\ unreadable' = { f \in FileNames : NoFitsAt(RowOf(f)) }
            /\ files' = [f \in FileNames |->
                            IF NoFitsAt(RowOf(f)) THEN [wav |-> << >>, flux |-> << >>]
                            ELSE SpectrumAt(RowOf(f).LocalPath)]
            /\ IF NoFitsAt(RowOf("lw_dusty"))
               THEN Raise("OSError")
               ELSE pc' = "extract" /\ error' = error
    /\ UNCHANGED << kernel, mast, obs_table_nodust, data_products_nodust,
                    filtered_products_nodust, manifest_nodust, obs_table_dusty,
                    data_products_dusty, manifest_dusty, filters >>

\* a photometry lookup fails
SimbadFails ==
    /\ pc = "simbad"
    /\ Raise("ConnectionError")
    /\ UNCHANGED << files, archive, kernel >>

NextRun ==
    \/ QueryNodust \/ ProductsNodust \/ FilterNodust \/ DownloadNodust
    \/ DustyCell \/ PathsCell \/ SimbadFails
    \/ Next

\* one run of the whole notebook from top to bottom
SpecRun == InitRun /\ [][NextRun]_vars

(***************************************************************************)
(* filter_products as a function: the kernel stands before a call of       *)
(* Observations.filter_products on an arbitrary product table, with        *)
(* arbitrary filters.                                                      *)
(***************************************************************************)
\* the rows a drawn product table is made of: a level 2 spectrum, a
\* calibration file, a preview and a level 3 spectrum
ProductPool ==
    { Science("nodust", "lw"), Auxiliary("nodust", "lw"), Preview("nodust", "sw"),
      Product("nodust", "sw", "SCIENCE", "mxhi", ".fits", 3, FALSE) }

\* the product tables of at most MaxProducts rows
ProductTables == UNION { [1..n -> ProductPool] : n \in 0..MaxProducts }

\* the filters drawn: none, one filter, two filters, several options
FilterChoices ==
    { << >>,
      << [field |-> "productType", options |-> << "SCIENCE" >>] >>,
      << [field |-> "productType", options |-> << "SCIENCE" >>],
         [field |-> "calib_level", options |-> << 2, 3 >>] >>,
      << [field |-> "productType", options |-> << "SCIENCE", "PREVIEW" >>],
         [field |-> "calib_level", options |-> << 2 >>] >>,
      << [field |-> "calib_level", options |-> << 1, 3 >>] >>,
      IUEFilters,
      << [field |-> "extension", options |-> << << "mxlo", ".fits" >> >>] >>,
      << [field |-> "extension", options |-> << << ".gif" >>, << ".fits" >> >>],
         [field |-> "calib_level", options |-> << 3 >>] >> }

InitFilter ==
    /\ pc = "list_call"
    /\ files = Download([wav |-> << >>, flux |-> << >>], [wav |-> << >>, flux |-> << >>],
                        [wav |-> << >>, flux |-> << >>], [wav |-> << >>, flux |-> << >>])
    /\ KernelFresh

\* a product listing returns some product table
ListCall ==
    /\ pc = "list_call"
    /\ data_products_nodust' \in ProductTables
    /\ pc' = "filter_call"
    /\ UNCHANGED << error, files, kernel, mast, obs_table_nodust, filtered_products_nodust,
                    manifest_nodust, obs_table_dusty, data_products_dusty, manifest_dusty,
                    filters, unreadable >>

\* Observations.filter_products(data_products, **filters), mrp_only=False
FilterCall ==
    /\ pc = "filter_call"
    /\ filters' \in FilterChoices
    /\ filtered_products_nodust' = filter_products(data_products_nodust, FALSE, filters')
    /\ pc' = "download_filtered"
    /\ UNCHANGED << error, files, kernel, mast, obs_table_nodust, data_products_nodust,
                    manifest_nodust, obs_table_dusty, data_products_dusty, manifest_dusty,
                    unreadable >>

\* Observations.download_products(filtered_products): the download of the
\* table the filter step returned
DownloadFiltered ==
    /\ pc = "download_filtered"
    /\ \E conds \in [1..Len(filtered_products_nodust) -> FileConditions] :
          manifest_nodust' = download_products(filtered_products_nodust, FALSE, << >>, conds)
    /\ pc' = "download_direct"
    /\ UNCHANGED << error, files, kernel, mast, obs_table_nodust, data_products_nodust,
                    filtered_products_nodust, obs_table_dusty, data_products_dusty,
                    manifest_dusty, filters, unreadable >>

\* DownloadDirect as it would be if the filters were not handed on
DownloadDirectUnfiltered ==
    /\ pc = "download_direct"
    /\ \E conds \in [1..Len(data_products_nodust) -> FileConditions] :
          manifest_dusty' = download_products(data_products_nodust, FALSE, << >>, conds)
    /\ pc' = "downloaded"
    /\ UNCHANGED << error, files, kernel, mast, obs_table_nodust, data_products_nodust,
                    filtered_products_nodust, manifest_nodust, obs_table_dusty,
                    data_products_dusty, filters, unreadable >>

\* Observations.download_products(data_products, **filters): the download of
\* the unfiltered table, the filters passed to the download
DownloadDirect ==
    /\ pc = "download_direct"
    /\ \E conds \in [1..Len(filter_products(data_products_nodust, FALSE, filters))
                        -> FileConditions] :
          manifest_dusty' = download_products(data_products_nodust, FALSE, filters, conds)
    /\ pc' = "downloaded"
    /\ UNCHANGED << error, files, kernel, mast, obs_table_nodust, data_products_nodust,
                    filtered_products_nodust, manifest_nodust, obs_table_dusty,
                    data_products_dusty, filters, unreadable >>

NextFilter == ListCall \/ FilterCall \/ DownloadFiltered \/ DownloadDirect

SpecFilter == InitFilter /\ [][NextFilter]_vars

(***************************************************************************)
(* Extinction as a function: the kernel stands before the first call of    *)
(* the extinction cell with arbitrary arrays and normalization constants.  *)
(***************************************************************************)
NormVals == { Num(1), Num(2), Zero(1), Num(-1) }
RefNormVals == { Num(1), Zero(1), Two(-BigExp) }
EBVVals == { Num(1), Zero(1), Num(-2) }

\* the inputs of the documented example: fluxes [1, 2, 4] over [2, 2, 2],
\* normalization constants 1 and 2, normalization difference 1
ScenarioInputs ==
    /\ wav_sw_dusty = WavColumn(1000, 3)
    /\ flux_sw_dusty = << Num(1), Num(2), Num(4) >>
    /\ flux_sw_nodust = << Num(2), Num(2), Num(2) >>
    /\ wav_sw_nodust = WavColumn(1000, 3)
    /\ V_dusty = Num(1) /\ V_nodust = Num(2) /\ EBV = Num(1)

\* inputs drawn from the bounded sets
DrawnInputs ==
    /\ \E w \in 0..MaxLen, a \in 0..MaxLen, b \in 0..MaxLen,
          o1 \in 0..(Len(FluxList) - 1), o2 \in 0..(Len(FluxList) - 1) :
          /\ wav_sw_dusty = WavColumn(0, w)
          /\ flux_sw_dusty = FluxColumn(o1, a)
          /\ flux_sw_nodust = FluxColumn(o2, b)
          /\ wav_sw_nodust = WavColumn(0, b)
    /\ V_dusty \in NormVals
    /\ V_nodust \in RefNormVals
    /\ EBV \in EBVVals

InitExt ==
    /\ pc = "ext_s"
    /\ error = "none"
    /\ files = Download([wav |-> << >>, flux |-> << >>], [wav |-> << >>, flux |-> << >>],
                        [wav |-> << >>, flux |-> << >>], [wav |-> << >>, flux |-> << >>])
    /\ (DrawnInputs \/ ScenarioInputs)
    /\ wav_lw_dusty = << >> /\ flux_lw_dusty = << >>
    /\ wav_lw_nodust = << >> /\ flux_lw_nodust = << >>
    /\ table_dusty = [V |-> Unset, B |-> Unset]
    /\ table_nodust = [V |-> Unset, B |-> Unset]
    /\ B_dusty = Unset /\ B_nodust = Unset
    /\ s_crop = 0 /\ l_crop = 0
    /\ s_inv_wav = << >> /\ s_ext = << >>
    /\ l_inv_wav = << >> /\ l_ext = << >>
    /\ sink = << >>
    /\ calls = << >>
    /\ reruns = 0
    /\ ArchiveIdle

NextExt == ExtShort \/ ExtLong

SpecExt == InitExt /\ [][NextExt]_vars

(***************************************************************************)
(* Extinction on a pair of spectra and on the same pair with both fluxes   *)
(* multiplied by one positive constant: the kernel stands before the       *)
(* extinction cell, the long-wavelength arrays hold the short-wavelength   *)
(* arrays times the constant.                                              *)
(***************************************************************************)
\* the positive constants drawn: 2, 1/2, a large and a small one
ScaleVals == { Two(1), Two(-1), Two(BigExp), Two(-BigExp) }

InitScale ==
    /\ pc = "ext_s"
    /\ error = "none"
    /\ files = Download([wav |-> << >>, flux |-> << >>], [wav |-> << >>, flux |-> << >>],
                        [wav |-> << >>, flux |-> << >>], [wav |-> << >>, flux |-> << >>])
    /\ \E n \in 0..MaxLen, o1 \in 0..(Len(FluxList) - 1), o2 \in 0..(Len(FluxList) - 1),
          c \in ScaleVals :
          /\ wav_sw_dusty = WavColumn(1000, n)
          /\ flux_sw_dusty = FluxColumn(o1, n)
          /\ flux_sw_nodust = FluxColumn(o2, n)
          /\ wav_sw_nodust = WavColumn(1000, n)
          /\ wav_lw_dusty = WavColumn(1000, n)
          /\ flux_lw_dusty = scal_mul(c, FluxColumn(o1, n))
          /\ flux_lw_nodust = scal_mul(c, FluxColumn(o2, n))
          /\ wav_lw_nodust = WavColumn(1000, n)
    /\ V_dusty \in NormVals
    /\ V_nodust \in RefNormVals
    /\ EBV \in EBVVals
    /\ table_dusty = [V |-> Unset, B |-> Unset]
    /\ table_nodust = [V |-> Unset, B |-> Unset]
    /\ B_dusty = Unset /\ B_nodust = Unset
    /\ s_crop = 0 /\ l_crop = 0
    /\ s_inv_wav = << >> /\ s_ext = << >>
    /\ l_inv_wav = << >> /\ l_ext = << >>
    /\ sink = << >>
    /\ calls = << >>
    /\ reruns = 0
    /\ ArchiveIdle

NextScale == ExtShort \/ ExtLong

SpecScale == InitScale /\ [][NextScale]_vars

(***************************************************************************)
(* Extinction with the roles of the two targets exchanged: the kernel      *)
(* stands before the extinction cell, the long-wavelength arrays hold the  *)
(* short-wavelength fluxes with target and reference exchanged, and        *)
(* between the two calls the two normalization constants are exchanged.    *)
(***************************************************************************)
\* the normalization constants drawn: 1, 2, a large and a small one
SwapNormVals == { Num(1), Num(2), Two(BigExp), Two(-BigExp) }

InitSwap ==
    /\ pc = "ext_s"
    /\ error = "none"
    /\ files = Download([wav |-> << >>, flux |-> << >>], [wav |-> << >>, flux |-> << >>],
                        [wav |-> << >>, flux |-> << >>], [wav |-> << >>, flux |-> << >>])
    /\ \E n \in 0..MaxLen, o1 \in 0..(Len(FluxList) - 1), o2 \in 0..(Len(FluxList) - 1) :
          /\ wav_sw_dusty = WavColumn(1000, n)
          /\ flux_sw_dusty = FluxColumn(o1, n)
          /\ flux_sw_nodust = FluxColumn(o2, n)
          /\ wav_sw_nodust = WavColumn(1000, n)
          /\ wav_lw_dusty = WavColumn(1000, n)
          /\ flux_lw_dusty = FluxColumn(o2, n)
          /\ flux_lw_nodust = FluxColumn(o1, n)
          /\ wav_lw_nodust = WavColumn(1000, n)
    /\ V_dusty \in SwapNormVals
    /\ V_nodust \in SwapNormVals
    /\ EBV \in EBVVals
    /\ table_dusty = [V |-> Unset, B |-> Unset]
    /\ table_nodust = [V |-> Unset, B |-> Unset]
    /\ B_dusty = Unset /\ B_nodust = Unset
    /\ s_crop = 0 /\ l_crop = 0
    /\ s_inv_wav = << >> /\ s_ext = << >>
    /\ l_inv_wav = << >> /\ l_ext = << >>
    /\ sink = << >>
    /\ calls = << >>
    /\ reruns = 0
    /\ ArchiveIdle

\* V_dusty, V_nodust = V_nodust, V_dusty between the two calls; EBV is kept
SwapNorms ==
    /\ pc = "ext_l"
    /\ reruns = 0
    /\ reruns' = 1
    /\ V_dusty' = V_nodust
    /\ V_nodust' = V_dusty
    /\ UNCHANGED << pc, error, files, archive, arrays, photometry, B_dusty, B_nodust, EBV,
                    crops, curves, sink, calls >>

NextSwap == ExtShort \/ SwapNorms \/ ExtLong

SpecSwap == InitSwap /\ [][NextSwap]_vars

(***************************************************************************)
(* Properties.                                                             *)
(***************************************************************************)
\* the run is past the alignment cell
Aligned == pc \notin {"extract", "align"}

\* the long-wavelength spectra as the files hold them
lwDustyLoaded == files["lw_dusty"]
lwNodustLoaded == files["lw_nodust"]

\* C1 (as claimed): after the alignment cell both long-wavelength sequences
\* have length min(m, n), m and n being the lengths they were loaded with:
\* whichever is longer has been truncated.
C1_AlignedToMin ==
    Aligned =>
        LET m == Len(lwDustyLoaded.flux)
            n == Len(lwNodustLoaded.flux)
        IN  /\ Len(wav_lw_dusty) = Min(m, n) /\ Len(flux_lw_dusty) = Min(m, n)
            /\ Len(wav_lw_nodust) = Min(m, n) /\ Len(flux_lw_nodust) = Min(m, n)

\* the ratio of the normalization constants and of the fluxes at index i
RatioNorm(c) == Div(c.V_dusty, c.V_nodust)
RatioFlux(c, i) == Div(c.flux1[i], c.flux2[i])

\* the invocation returned, and its flux arrays have the same length
ReturnedEqual(c) == c.out.raised = "none" /\ Len(c.flux1) = Len(c.flux2)

\* the invocation is the documented example
IsScenario(c) ==
    /\ c.flux1 = << Num(1), Num(2), Num(4) >>
    /\ c.flux2 = << Num(2), Num(2), Num(2) >>
    /\ c.V_dusty = Num(1) /\ c.V_nodust = Num(2) /\ c.EBV = Num(1)

\* C2 (as claimed): for equal-length inputs derived[i] is
\* ln(ratioNorm / ratioFlux[i]) / normDifference, and that equals
\* (ln(ratioNorm) - ln(ratioFlux[i])) / normDifference, at every index.
C2_FormulaAndDifference ==
    \A n \in DOMAIN calls :
        LET c == calls[n]
        IN  ReturnedEqual(c) =>
                \A i \in 1..Len(c.flux1) :
                    /\ c.out.ext[i] = Div(np_log(Div(RatioNorm(c), RatioFlux(c, i))), c.EBV)
                    /\ c.out.ext[i] =
                           Div(Sub(np_log(RatioNorm(c)), np_log(RatioFlux(c, i))), c.EBV)

\* both ratios are positive finite numbers and so is their quotient
PositiveRatios(c, i) ==
    /\ RatioNorm(c).k = "fin" /\ RatioNorm(c).s = 1
    /\ RatioFlux(c, i).k = "fin" /\ RatioFlux(c, i).s = 1
    /\ Div(RatioNorm(c), RatioFlux(c, i)).k = "fin"

\* C2 (amended): for equal-length inputs derived[i] is
\* ln(ratioNorm / ratioFlux[i]) / normDifference at every index; it equals
\* (ln(ratioNorm) - ln(ratioFlux[i])) / normDifference where both ratios are
\* positive and their quotient neither overflows nor underflows; the
\* documented example gives [ln 1, ln 0.5, ln 0.25].
C2_Formula ==
    \A n \in DOMAIN calls :
        LET c == calls[n]
        IN  ReturnedEqual(c) =>
                /\ Len(c.out.ext) = Len(c.flux1)
                /\ \A i \in 1..Len(c.flux1) :
                    /\ c.out.ext[i] = Div(np_log(Div(RatioNorm(c), RatioFlux(c, i))), c.EBV)
                    /\ PositiveRatios(c, i) =>
                           c.out.ext[i] =
                               Div(Sub(np_log(RatioNorm(c)), np_log(RatioFlux(c, i))), c.EBV)
                /\ IsScenario(c) => c.out.ext = << Zero(1), Num(-1), Num(-2) >>

\* C2 witness: the documented example has been computed
C2_Witness ==
    \E n \in DOMAIN calls :
        /\ IsScenario(calls[n]) /\ ReturnedEqual(calls[n])
        /\ PositiveRatios(calls[n], 2)

\* C3 (as claimed): every invocation of Extinction in a run of the notebook
\* gets a wavelength array, a target flux array and a reference flux array
\* of the same number of points.
C3_SameNumberOfPoints ==
    \A n \in DOMAIN calls :
        /\ Len(calls[n].wav) = Len(calls[n].flux1)
        /\ Len(calls[n].flux1) = Len(calls[n].flux2)

\* seq without its first s and its last e elements, as a crop is documented
Cropped(seq, s, e) == SubSeq(seq, s + 1, Len(seq) - e)

\* the counts the crop cell removes: s_crop from the front of the short-
\* wavelength arrays, -l_crop from the end of the long-wavelength arrays
FrontCount == s_crop
BackCount == -l_crop

\* C4 (as claimed): for counts s, e >= 0 with s + e < len(seq), s = 0 and
\* e = 0 included, the cropped sequence handed to Extinction is exactly the
\* elements s .. len(seq)-e-1 of seq, in order.
C4_CropKeepsTheRest ==
    \A n \in DOMAIN calls :
        LET c == calls[n]
        IN  /\ (c.site = "crop_s" /\ FrontCount < Len(wav_sw_dusty)) =>
                   c.wav = Cropped(wav_sw_dusty, FrontCount, 0)
            /\ (c.site = "crop_s" /\ FrontCount < Len(flux_sw_nodust)) =>
                   c.flux2 = Cropped(flux_sw_nodust, FrontCount, 0)
            /\ (c.site = "crop_l" /\ BackCount < Len(wav_lw_dusty)) =>
                   c.wav = Cropped(wav_lw_dusty, 0, BackCount)
            /\ (c.site = "crop_l" /\ BackCount < Len(flux_lw_nodust)) =>
                   c.flux2 = Cropped(flux_lw_nodust, 0, BackCount)

\* C5 (as claimed): a crop whose counts reach the length of the sequence
\* fails with a RangeError, so no invocation ever receives a sequence cropped
\* that way and the run has stopped with that error.
C5_CropRangeError ==
    /\ \A n \in DOMAIN calls :
        /\ ~(calls[n].site = "crop_s" /\ FrontCount >= Len(wav_sw_dusty))
        /\ ~(calls[n].site = "crop_l" /\ BackCount >= Len(wav_lw_dusty))
    /\ (pc \in {"crop_l", "done"} /\ FrontCount >= Len(wav_sw_dusty)) => error = "RangeError"

\* C5 (amended): a crop never fails; with counts that reach the length of
\* the sequence it silently yields the empty sequence, which is handed on.
C5_CropYieldsEmpty ==
    /\ error \in {"none", "ValueError"}
    /\ \A n \in DOMAIN calls :
        LET c == calls[n]
        IN  /\ (c.site = "crop_s" /\ FrontCount >= Len(wav_sw_dusty)) => c.wav = << >>
            /\ (c.site = "crop_s" /\ FrontCount >= Len(flux_sw_dusty)) => c.flux1 = << >>
            /\ (c.site = "crop_s" /\ FrontCount >= Len(flux_sw_nodust)) => c.flux2 = << >>
            /\ (c.site = "crop_l" /\ BackCount >= Len(wav_lw_dusty)) => c.wav = << >>
            /\ (c.site = "crop_l" /\ BackCount >= Len(flux_lw_dusty)) => c.flux1 = << >>
            /\ (c.site = "crop_l" /\ BackCount >= Len(flux_lw_nodust)) => c.flux2 = << >>
    /\ pc \in {"crop_l", "done"} => \E n \in DOMAIN calls : calls[n].site = "crop_s"
    /\ pc = "done" => \E n \in DOMAIN calls : calls[n].site = "crop_l"

\* C5 witness: a non-empty sequence cropped away entirely, and Extinction
\* returned on it
C5_Witness ==
    \E n \in DOMAIN calls :
        /\ calls[n].site = "crop_s"
        /\ Len(wav_sw_dusty) >= 1 /\ FrontCount >= Len(wav_sw_dusty)
        /\ calls[n].wav = << >> /\ calls[n].out.raised = "none"

\* C6 (as claimed): two invocations with the same arguments give the same
\* output, whatever ran between them.
C6_SameArgumentsSameOutput ==
    \A m, n \in DOMAIN calls :
        (/\ calls[m].wav = calls[n].wav
         /\ calls[m].flux1 = calls[n].flux1
         /\ calls[m].flux2 = calls[n].flux2) => calls[m].out = calls[n].out

\* C6 (amended): two invocations with the same arguments give the same output
\* provided the module-level V_dusty, V_nodust and EBV hold the same values
\* at both.
C6_SameArgumentsAndNormsSameOutput ==
    \A m, n \in DOMAIN calls :
        (/\ calls[m].wav = calls[n].wav
         /\ calls[m].flux1 = calls[n].flux1
         /\ calls[m].flux2 = calls[n].flux2
         /\ calls[m].V_dusty = calls[n].V_dusty
         /\ calls[m].V_nodust = calls[n].V_nodust
         /\ calls[m].EBV = calls[n].EBV) => calls[m].out = calls[n].out

\* C6 witness: the same arguments before and after the photometry was
\* queried again, with the same constants, and a curve was returned
C6_Witness ==
    \E m, n \in DOMAIN calls :
        /\ m < n /\ reruns > 0
        /\ calls[m].site = "ext_s" /\ calls[n].site = "ext_s"
        /\ calls[m].flux1 = calls[n].flux1 /\ calls[m].flux2 = calls[n].flux2
        /\ calls[m].V_dusty = calls[n].V_dusty /\ calls[m].V_nodust = calls[n].V_nodust
        /\ calls[m].EBV = calls[n].EBV
        /\ Len(calls[n].out.ext) >= 1

\* the step is an invocation of Extinction
Invokes == Len(calls') = Len(calls) + 1

\* C7 (as claimed): an invocation of align, crop or Extinction changes nothing
\* but its result: the charting sink, in particular, is as before.
C7_NothingButTheResult ==
    [][/\ pc = "align" => UNCHANGED sink
       /\ Invokes => UNCHANGED sink]_vars

\* C7 (amended): the alignment and the crops change nothing but their result;
\* an invocation of Extinction that returns adds exactly one line, the
\* returned (inv_wav, ext), to the charting sink and changes no array, file
\* or constant; one that raises adds nothing.
C7_ExtinctionPlots ==
    [][/\ pc = "align" =>
            UNCHANGED << error, files, wav_lw_dusty, flux_lw_dusty, wav_sw_dusty,
                         flux_sw_dusty, wav_sw_nodust, flux_sw_nodust, photometry,
                         norms, crops, curves, sink, calls >>
       /\ Invokes =>
            LET c == calls'[Len(calls')]
            IN  /\ UNCHANGED << files, arrays, photometry, norms, crops >>
                /\ sink' = IF c.out.raised = "none"
                           THEN Append(sink, [x |-> c.out.inv_wav, y |-> c.out.ext])
                           ELSE sink]_vars

\* C7 witness: a crop was taken and Extinction returned a curve of at least
\* one point, which is the last line of the sink
C7_Witness ==
    /\ pc = "crop_l"
    /\ Len(s_ext) >= 1
    /\ sink[Len(sink)] = [x |-> s_inv_wav, y |-> s_ext]

\* s is a prefix of t
IsPrefix(s, t) == Len(s) <= Len(t) /\ \A k \in 1..Len(s) : s[k] = t[k]

\* C8: after the alignment cell each long-wavelength array is a prefix of the
\* array it was loaded as, in the same order: element k of the output is
\* element k of its own input for every k up to min(m, n).
C8_AlignKeepsPrefix ==
    Aligned =>
        LET mn == Min(Len(lwDustyLoaded.flux), Len(lwNodustLoaded.flux))
        IN  /\ IsPrefix(wav_lw_dusty, lwDustyLoaded.wav)
            /\ IsPrefix(flux_lw_dusty, lwDustyLoaded.flux)
            /\ IsPrefix(wav_lw_nodust, lwNodustLoaded.wav)
            /\ IsPrefix(flux_lw_nodust, lwNodustLoaded.flux)
            /\ \A k \in 1..mn :
                /\ wav_lw_dusty[k] = lwDustyLoaded.wav[k]
                /\ flux_lw_dusty[k] = lwDustyLoaded.flux[k]
                /\ wav_lw_nodust[k] = lwNodustLoaded.wav[k]
                /\ flux_lw_nodust[k] = lwNodustLoaded.flux[k]

\* C8 witness: the alignment cell has cut a longer reference spectrum down
\* to the two points of the target, which differ from the reference's
C8_Witness ==
    /\ pc = "plot"
    /\ Len(lwNodustLoaded.flux) = 3 /\ Len(lwDustyLoaded.flux) = 2
    /\ Len(flux_lw_nodust) = 2
    /\ flux_lw_nodust[1] # flux_lw_dusty[1] /\ flux_lw_nodust[1] # flux_lw_nodust[2]

\* C9 (as claimed): Extinction never raises, whatever its inputs, flux arrays
\* of different lengths included.
C9_NeverRaises == \A n \in DOMAIN calls : calls[n].out.raised = "none"

\* the three arrays of the invocation have the same length
EqualLengths(c) == Len(c.wav) = Len(c.flux1) /\ Len(c.flux1) = Len(c.flux2)

\* the normalization cell had assigned V_dusty, V_nodust and EBV when the
\* invocation was made
NormsDefined(c) == c.V_dusty.k # "unset" /\ c.V_nodust.k # "unset" /\ c.EBV.k # "unset"

\* C9 (amended): with the normalization constants assigned, Extinction never
\* raises on three arrays of the same length,
\* zero reference fluxes and zero normalization constants included: it
\* returns two sequences of that length.  On flux arrays of different lengths
\* that do not broadcast (neither has length 1) it raises a ValueError.
C9_RaisesOnlyOnLengths ==
    \A n \in DOMAIN calls :
        LET c == calls[n]
        IN  /\ (NormsDefined(c) /\ EqualLengths(c)) =>
                /\ c.out.raised = "none"
                /\ Len(c.out.ext) = Len(c.flux1)
                /\ Len(c.out.inv_wav) = Len(c.wav)
            /\ (/\ NormsDefined(c)
                /\ Len(c.flux1) # Len(c.flux2) /\ Len(c.flux1) # 1 /\ Len(c.flux2) # 1) =>
                c.out.raised = "ValueError"

\* C9 witness: all of a zero reference flux, a zero reference constant and a
\* zero normalization difference, and a non-finite value returned
C9_Witness ==
    \E n \in DOMAIN calls :
        LET c == calls[n]
        IN  /\ EqualLengths(c) /\ Len(c.flux2) >= 2
            /\ IsZero(c.flux2[1]) /\ IsZero(c.V_nodust) /\ IsZero(c.EBV)
            /\ c.out.raised = "none" /\ ~IsFinite(c.out.ext[1])

\* the float is a non-zero finite number
NonZero(a) == a.k = "fin"

\* C10 (as claimed): where the reference flux and the normalization constants
\* are non-zero, derived[i] is finite whatever the target flux.
C10_FiniteUnlessZeroReference ==
    \A n \in DOMAIN calls :
        LET c == calls[n]
        IN  ReturnedEqual(c) =>
                \A i \in 1..Len(c.flux1) :
                    (/\ NonZero(c.flux2[i]) /\ NonZero(c.V_dusty)
                     /\ NonZero(c.V_nodust) /\ NonZero(c.EBV)) => IsFinite(c.out.ext[i])

\* the largest exponent e such that four magnitudes within [2^-e, 2^e]
\* cannot take a quotient of quotients out of the floats' range
ModerateExp == (EMax - 1) \div 4

\* the float is non-zero and its magnitude lies within [2^-e, 2^e]
Moderate(a) ==
    /\ a.k = "fin"
    /\ a.p <= a.q * Pow2(ModerateExp)
    /\ a.q <= a.p * Pow2(ModerateExp)

\* the five inputs of index i are non-zero and of moderate magnitude
ModerateInputs(c, i) ==
    /\ Moderate(c.flux1[i]) /\ Moderate(c.flux2[i])
    /\ Moderate(c.V_dusty) /\ Moderate(c.V_nodust) /\ Moderate(c.EBV)

\* C10 (amended): derived[i] is finite where the reference flux, the target
\* flux and the three constants are all non-zero, of moderate magnitude (no
\* quotient overflows or underflows) and the flux ratio has the sign of the
\* ratio of the constants.  A zero target flux gives an infinity, a flux
\* ratio of the opposite sign a NaN, although no reference value is zero.
C10_FiniteOnPositiveRatio ==
    \A n \in DOMAIN calls :
        LET c == calls[n]
        IN  ReturnedEqual(c) =>
                \A i \in 1..Len(c.flux1) :
                    /\ (/\ ModerateInputs(c, i)
                        /\ c.flux1[i].s * c.flux2[i].s = c.V_dusty.s * c.V_nodust.s)
                           => IsFinite(c.out.ext[i])
                    /\ (/\ ModerateInputs(c, i)
                        /\ c.flux1[i].s * c.flux2[i].s # c.V_dusty.s * c.V_nodust.s)
                           => c.out.ext[i] = NaN
                    /\ (/\ IsZero(c.flux1[i]) /\ Moderate(c.flux2[i]) /\ Moderate(c.V_dusty)
                        /\ Moderate(c.V_nodust) /\ Moderate(c.EBV))
                           => c.out.ext[i].k = "inf" \/ c.out.ext[i].k = "nan"

\* C10 witness: a negative target flux over a positive reference flux with
\* constants of opposite signs, and a finite non-zero value returned
C10_Witness ==
    \E n \in DOMAIN calls :
        LET c == calls[n]
        IN  /\ ReturnedEqual(c) /\ Len(c.flux1) >= 1
            /\ ModerateInputs(c, 1)
            /\ c.flux1[1].s = -1 /\ c.flux2[1].s = 1 /\ c.V_dusty.s = -1
            /\ c.out.ext[1].k = "fin"
\* both calls of the extinction cell have returned
BothReturned == pc = "crop_set" /\ Len(calls) = 2

\* C11 (as claimed): Extinction on (c * flux1, c * flux2) returns the same
\* derived sequence as on (flux1, flux2), for every positive constant c and
\* the same normalization constants.
C11_ScalingLaw == BothReturned => l_ext = s_ext

\* the products c * flux kept every flux in range: none overflowed to
\* infinity, none underflowed to zero
ScaledInRange ==
    /\ \A i \in DOMAIN flux_sw_dusty : flux_lw_dusty[i].k = flux_sw_dusty[i].k
    /\ \A i \in DOMAIN flux_sw_nodust : flux_lw_nodust[i].k = flux_sw_nodust[i].k

\* C11 (amended): Extinction on (c * flux1, c * flux2) returns the same
\* derived sequence as on (flux1, flux2) whenever c is a power of two and no
\* product c * flux overflows or underflows.
C11_ScalingLawInRange ==
    (BothReturned /\ ScaledInRange) =>
        /\ l_ext = s_ext
        /\ calls[2].out.ext = calls[1].out.ext

\* C11: both calls returned on a pair of at least two points scaled in
\* range, with a finite non-zero derived value
C11_Witness ==
    /\ BothReturned /\ ScaledInRange
    /\ Len(s_ext) >= 2
    /\ flux_lw_dusty # flux_sw_dusty
    /\ s_ext[1].k = "fin"
    /\ l_ext = s_ext

\* C12: an invocation of Extinction (the normalization constants assigned)
\* on a wavelength and two flux arrays of one common length returns two arrays of that length, the first holding
\* 10^4 / wav[i] at every index i, the second the derived value of the
\* fluxes at the same index i.
C12_IndexAlignedPairs ==
    \A n \in DOMAIN calls :
        LET c == calls[n]
        IN  (NormsDefined(c) /\ EqualLengths(c)) =>
                /\ c.out.raised = "none"
                /\ Len(c.out.inv_wav) = Len(c.wav)
                /\ Len(c.out.ext) = Len(c.wav)
                /\ \A i \in DOMAIN c.wav :
                      /\ c.out.inv_wav[i] = Div(Num(10000), c.wav[i])
                      /\ c.out.ext[i] =
                            Div(np_log(Div(RatioNorm(c), RatioFlux(c, i))), c.EBV)

\* C12: Extinction has returned on three points at 1000, 2000 and 3000
\* angstrom: inverse wavelengths 10, 5 and 10/3, three derived values
C12_Witness ==
    \E n \in DOMAIN calls :
        /\ EqualLengths(calls[n]) /\ Len(calls[n].wav) = 3
        /\ calls[n].wav[2] = Num(2000)
        /\ calls[n].out.inv_wav = << Num(10), Num(5), Round(1, 10, 3) >>
        /\ Len(calls[n].out.ext) = 3

\* the loaded sequences the alignment cell does not assign
keptArrays == << wav_lw_dusty, flux_lw_dusty, wav_sw_dusty, flux_sw_dusty,
                 wav_sw_nodust, flux_sw_nodust >>

\* every loaded sequence holds its file's column, the long-wavelength
\* no-dust ones at least a prefix of it (all of it before the first alignment)
HoldsLoadedValues ==
    /\ wav_lw_dusty = files["lw_dusty"].wav /\ flux_lw_dusty = files["lw_dusty"].flux
    /\ wav_sw_dusty = files["sw_dusty"].wav /\ flux_sw_dusty = files["sw_dusty"].flux
    /\ wav_sw_nodust = files["sw_nodust"].wav /\ flux_sw_nodust = files["sw_nodust"].flux
    /\ IsPrefix(wav_lw_nodust, files["lw_nodust"].wav)
    /\ IsPrefix(flux_lw_nodust, files["lw_nodust"].flux)
    /\ (pc = "align" /\ reruns = 0 =>
            /\ wav_lw_nodust = files["lw_nodust"].wav
            /\ flux_lw_nodust = files["lw_nodust"].flux)

\* a step after the load changes no loaded sequence, except that the
\* alignment cell may shorten the long-wavelength no-dust pair
StepKeepsLoaded ==
    pc # "extract" =>
        /\ UNCHANGED keptArrays
        /\ IF pc = "align"
           THEN /\ IsPrefix(wav_lw_nodust', wav_lw_nodust)
                /\ IsPrefix(flux_lw_nodust', flux_lw_nodust)
           ELSE UNCHANGED << wav_lw_nodust, flux_lw_nodust >>

\* C13: after the load every loaded sequence holds the values it was loaded
\* with, except that the alignment cell may shorten one spectrum; the plot
\* cell, the crop cell and Extinction never modify a loaded sequence.
C13_LoadedSequencesKept ==
    /\ [](pc # "extract" => HoldsLoadedValues)
    /\ [][StepKeepsLoaded]_vars

\* C13: the run is complete, the alignment cell shortened the no-dust
\* spectrum, the crop cell removed points and Extinction returned four times
C13_Witness ==
    /\ pc = "done" /\ Len(calls) = 4
    /\ Len(flux_lw_nodust) < Len(files["lw_nodust"].flux)
    /\ s_crop > 0 /\ l_crop < 0
    /\ Len(flux_sw_dusty) >= 2 /\ Len(flux_lw_dusty) >= 2
    /\ Len(calls[3].flux1) < Len(flux_sw_dusty)
    /\ HoldsLoadedValues

\* the arguments of two invocations are the same
SameArguments(c, d) == c.wav = d.wav /\ c.flux1 = d.flux1 /\ c.flux2 = d.flux2

\* C14 (as claimed): the outcome of an invocation of Extinction depends on its
\* arguments only, not on the cells that ran before it: whenever the
\* arguments are the same, it raises or returns alike and returns the same.
C14_OrderDoesNotMatter ==
    \A m, n \in DOMAIN calls :
        SameArguments(calls[m], calls[n]) =>
            /\ calls[m].out.raised = calls[n].out.raised
            /\ calls[m].out.ext = calls[n].out.ext
            /\ calls[m].out.inv_wav = calls[n].out.inv_wav

\* an invocation made before the normalization cell ran raises NameError;
\* one made after it on arrays of one length returns
NormCellDecides ==
    \A n \in DOMAIN calls :
        /\ ~NormsDefined(calls[n]) => calls[n].out.raised = "NameError"
        /\ (NormsDefined(calls[n]) /\ EqualLengths(calls[n])) =>
                calls[n].out.raised = "none"

\* the alignment cell's result is the prefix of its argument of the length
\* of the shorter of its two arguments, whatever ran before
AlignStep ==
    (pc = "align" /\ pc' = "plot") =>
        /\ IsPrefix(wav_lw_nodust', wav_lw_nodust)
        /\ IsPrefix(flux_lw_nodust', flux_lw_nodust)
        /\ Len(wav_lw_nodust') = Min(Len(wav_lw_nodust), Len(wav_lw_dusty))
        /\ Len(flux_lw_nodust') = Min(Len(flux_lw_nodust), Len(flux_lw_dusty))

\* the front crop handed to Extinction is its argument without its first
\* s_crop points (nothing when there are no more), whatever ran before
CropStep ==
    (pc = "crop_s" /\ Invokes) =>
        LET c == calls'[Len(calls')]
            k == Min(s_crop, Len(flux_sw_dusty))
        IN  /\ c.flux1 = Cropped(flux_sw_dusty, k, 0)
            /\ c.wav = Cropped(wav_sw_dusty, Min(s_crop, Len(wav_sw_dusty)), 0)

\* C14 (amended): the results of the alignment and of the crop depend on their
\* arguments only; the outcome of an invocation of Extinction depends on its
\* arguments and on whether the normalization cell has run before it: before,
\* it raises NameError, after, it returns on arrays of one length.
C14_NormCellMustRunFirst ==
    /\ []NormCellDecides
    /\ [][AlignStep /\ CropStep]_vars

\* C14: the same arguments were passed to Extinction before the normalization
\* cell ran, where it raised, and after, where it returned two points
C14_Witness ==
    \E m, n \in DOMAIN calls :
        /\ m < n
        /\ SameArguments(calls[m], calls[n])
        /\ calls[m].out.raised = "NameError"
        /\ NormsDefined(calls[n])
        /\ calls[n].out.raised = "none" /\ Len(calls[n].out.ext) = 2

\* C15: the alignment never signals an error: whatever the lengths of the two
\* spectra (empty ones included) and whether or not their wavelength grids
\* agree, the run goes on to the next cell, no exception recorded, with the
\* no-dust pair truncated or left as it was.
C15_AlignNeverRaises ==
    [][pc = "align" =>
          /\ pc' = "plot" /\ error' = "none"
          /\ Len(wav_lw_nodust') <= Len(wav_lw_nodust)
          /\ Len(flux_lw_nodust') <= Len(flux_lw_nodust)]_vars

\* C15: the alignment went through on a dusty spectrum longer than the
\* no-dust one, on wavelength grids that differ at the first point
C15_Witness ==
    /\ pc = "plot" /\ error = "none"
    /\ Len(wav_lw_nodust) >= 1
    /\ Len(wav_lw_dusty) > Len(wav_lw_nodust)
    /\ wav_lw_nodust[1] # wav_lw_dusty[1]

\* C15: the alignment went through on two empty spectra
C15_WitnessEmpty ==
    /\ pc = "plot" /\ error = "none"
    /\ files["lw_dusty"].flux = << >> /\ files["lw_nodust"].flux = << >>

\* some file of a download failed
SomeDownloadFailed ==
    \/ \E i \in DOMAIN manifest_nodust : manifest_nodust[i].Status = "ERROR"
    \/ \E i \in DOMAIN manifest_dusty : manifest_dusty[i].Status = "ERROR"

\* C16 (as claimed): a failure of an external collaborator, a failed download
\* included, stops the run where it happens: the run is halted with the
\* failure, no later step has run.
C16_EveryFailureStopsTheRun ==
    /\ error # "none" => pc = "halt"
    /\ SomeDownloadFailed => (pc = "halt" /\ error # "none")

\* the cells after the extraction cell
PastExtract ==
    {"align", "plot", "simbad", "norm", "ext_s", "ext_l", "crop_set", "crop_s", "crop_l",
     "done"}

\* an exception is recorded exactly when the run is halted, and the
\* extraction has only gone through when every file taken from the manifests
\* was there
HaltedOnException ==
    /\ pc = "halt" <=> error # "none"
    /\ pc \in PastExtract => (unreadable = {} /\ \A f \in FileNames : RowOf(f).Status # "ERROR")

\* an exception halts the run in the step that raises it, and a halted run
\* takes no further step: nothing is retried, nothing is caught
ExceptionHalts ==
    /\ pc # "halt"
    /\ error' # error => (error = "none" /\ pc' = "halt")
    /\ pc' = "halt" => error' # "none"

\* C16 (amended): an exception raised by an external collaborator (query,
\* product listing, download request, file read, photometry lookup) stops the
\* run in the step that raises it, with that exception, and no later step
\* runs; the failure of a single file of a download is not raised but
\* reported in the manifest: the run goes on and stops when the missing file
\* is read.
C16_RaisedFailuresStopTheRun ==
    /\ []HaltedOnException
    /\ [][ExceptionHalts]_vars

\* C16: the download request of the dusty target failed after the query and
\* the product listing had gone through: the run is halted, nothing later ran
C16_Witness ==
    /\ pc = "halt" /\ error = "RemoteServiceError"
    /\ manifest_nodust # << >>
    /\ data_products_dusty # << >> /\ manifest_dusty = << >>
    /\ files["lw_dusty"].wav = << >> /\ calls = << >>

\* C16: a file of a download failed, the run went on and halted where the
\* extraction cell opened the missing file
C16_WitnessMissingFile ==
    /\ pc = "halt" /\ error = "OSError"
    /\ manifest_dusty # << >> /\ Len(manifest_dusty) >= 2
    /\ manifest_dusty[2].Status = "ERROR"
    /\ wav_lw_dusty # << >> /\ wav_sw_dusty = << >>

\* the rows of both download manifests
ManifestRows ==
    { manifest_nodust[i] : i \in DOMAIN manifest_nodust }
        \cup { manifest_dusty[i] : i \in DOMAIN manifest_dusty }

\* C17: every row of a download manifest has a status that is one of
\* COMPLETE, SKIPPED and ERROR, and a row whose status is ERROR carries an
\* error message.
C17_ManifestStatus ==
    \A row \in ManifestRows :
        /\ row.Status \in {"COMPLETE", "SKIPPED", "ERROR"}
        /\ row.Status = "ERROR" => row.Message # "None"

\* C17: both manifests are there, with a fetched, a cached and a failed file
C17_Witness ==
    /\ Len(manifest_nodust) = 2 /\ Len(manifest_dusty) = 2
    /\ \E row \in ManifestRows : row.Status = "COMPLETE"
    /\ \E row \in ManifestRows : row.Status = "SKIPPED"
    /\ \E row \in ManifestRows : row.Status = "ERROR" /\ row.Message = "HTTPError"

\* the product has the option as its value for the field of the filter (for
\* the extension filter: its file name ends with the option)
HasValue(p, field, option) ==
    IF field = "extension"
    THEN /\ Len(option) <= Len(p.productFilename)
         /\ \A k \in 1..Len(option) :
               option[k] = p.productFilename[Len(p.productFilename) - Len(option) + k]
    ELSE p[field] = option

\* the product passes every filter: it has one of the options of each
PassesAll(p, fs) ==
    \A i \in DOMAIN fs : \E k \in DOMAIN fs[i].options :
        HasValue(p, fs[i].field, fs[i].options[k])

\* the rows of the table that pass, in the order of the table
RECURSIVE Passing(_, _)
Passing(table, fs) ==
    IF table = << >> THEN << >>
    ELSE IF PassesAll(Head(table), fs) THEN << Head(table) >> \o Passing(Tail(table), fs)
    ELSE Passing(Tail(table), fs)

\* the filter call has been made
Filtered == pc \in {"download_filtered", "download_direct", "downloaded"}

\* C18: the filters are joined with AND, the options of one filter with OR: a
\* product of the table is in the filtered result if and only if, for every
\* filter, it has at least one of the filter's options as its value; the
\* result keeps the order of the table.
C18_FiltersAndOptionsOr ==
    Filtered =>
        /\ \A i \in DOMAIN data_products_nodust :
              LET p == data_products_nodust[i]
              IN  PassesAll(p, filters) <=>
                      \E j \in DOMAIN filtered_products_nodust :
                          filtered_products_nodust[j] = p
        /\ filtered_products_nodust = Passing(data_products_nodust, filters)

\* C18: two filters, the second with two options, on a table with a row that
\* passes both and a row that passes only one: the result is the first row
C18_Witness ==
    /\ Filtered
    /\ Len(filters) = 2 /\ Len(filters[2].options) = 2
    /\ Len(data_products_nodust) = 2 /\ Len(filtered_products_nodust) = 1
    /\ filtered_products_nodust[1] = data_products_nodust[1]
    /\ \E i \in DOMAIN filters : \E k \in DOMAIN filters[i].options :
          HasValue(data_products_nodust[2], filters[i].field, filters[i].options[k])

\* the files of a manifest, in its order
LocalPaths(manifest) == [i \in DOMAIN manifest |-> manifest[i].LocalPath]

CellOrder ==
    << "query_nodust", "products_nodust", "filter_nodust", "download_nodust", "dusty",
       "paths", "extract", "align", "plot", "simbad", "norm", "ext_s", "ext_l",
       "crop_set", "crop_s", "crop_l", "done" >>

\* the place of a cell in the notebook
Place(cell) == CHOOSE i \in DOMAIN CellOrder : CellOrder[i] = cell

\* the invocations made on the long-wavelength pair
LongCalls == { n \in DOMAIN calls : calls[n].site \in {"ext_l", "crop_l"} }

\* the alignment has acted on the loaded long-wavelength arrays
AlignmentHasActed ==
    /\ wav_lw_nodust = PySliceTo(extractData("lw_nodust")[1], Len(wav_lw_dusty))
    /\ flux_lw_nodust = PySliceTo(extractData("lw_nodust")[2], Len(flux_lw_dusty))

\* C20: in a top-to-bottom run the steps occur in a fixed order: each step is
\* followed by the next cell of the notebook or stops the run; the archive
\* results exist in the order query, product listing, download; Extinction is
\* invoked only from the extinction and crop cells, with EBV, V_dusty and
\* V_nodust defined only from the normalization cell on, and no invocation on
\* the long-wavelength pair is made before the alignment has acted.
C20_FixedOrder ==
    /\ [][pc' # pc => /\ pc \in { CellOrder[i] : i \in DOMAIN CellOrder }
                      /\ pc' = "halt" \/ pc' = CellOrder[Place(pc) + 1]]_vars
    /\ [][Invokes => pc \in {"ext_s", "ext_l", "crop_s", "crop_l"}]_vars
    /\ [](data_products_nodust # << >> => obs_table_nodust # << >>)
    /\ [](manifest_nodust # << >> => data_products_nodust # << >>)
    /\ [](data_products_dusty # << >> => obs_table_dusty # << >>)
    /\ [](manifest_dusty # << >> => data_products_dusty # << >>)
    /\ [](pc \in PastExtract => manifest_nodust # << >> /\ manifest_dusty # << >>)
    /\ [](pc \in {"query_nodust", "products_nodust", "filter_nodust", "download_nodust",
                  "dusty", "paths", "extract", "align", "plot", "simbad", "norm"}
              => /\ calls = << >>
                 /\ V_dusty.k = "unset" /\ V_nodust.k = "unset" /\ EBV.k = "unset")
    /\ [](\A n \in DOMAIN calls : NormsDefined(calls[n]))
    /\ [](LongCalls # {} => AlignmentHasActed)

\* C20: the run has gone through every cell, the alignment has shortened the
\* unreddened long-wavelength arrays, and all four invocations were made
C20_Witness ==
    /\ pc = "done"
    /\ Len(calls) = 4
    /\ Len(wav_lw_nodust) < Len(extractData("lw_nodust")[1])
    /\ Cardinality(LongCalls) = 2

\* the wavelength band of the file a manifest row stands for
BandOf(row) == row.LocalPath[2]

\* the paths have been taken from the manifests
PathsTaken == pc \in {"extract"} \cup PastExtract \/ calls # << >>

\* C21 (as claimed): whatever order the archive lists the files in, the
\* first path of each manifest is the long-wavelength file and the second
\* the short-wavelength file, so that every invocation of Extinction pairs a
\* target and a reference spectrum of the same band.
C21_BandsByPosition ==
    PathsTaken =>
        /\ BandOf(RowOf("lw_dusty")) = "lw" /\ BandOf(RowOf("sw_dusty")) = "sw"
        /\ BandOf(RowOf("lw_nodust")) = "lw" /\ BandOf(RowOf("sw_nodust")) = "sw"
        /\ calls # << >> =>
              /\ BandOf(RowOf("lw_dusty")) = BandOf(RowOf("lw_nodust"))
              /\ BandOf(RowOf("sw_dusty")) = BandOf(RowOf("sw_nodust"))

\* C22 (as claimed): at every invocation of Extinction in the notebook's
\* flow EBV is non-zero and V_dusty and V_nodust are positive, whatever
\* photometry the lookups returned.
C22_NormalizationValid ==
    \A n \in DOMAIN calls :
        /\ ~IsZero(calls[n].EBV)
        /\ IsPositive(calls[n].V_dusty) /\ IsPositive(calls[n].V_nodust)

\* the three arrays of a band the crop cell slices, for a call site
BandArrays(site) ==
    IF site = "crop_s" THEN << wav_sw_dusty, flux_sw_dusty, flux_sw_nodust >>
    ELSE << wav_lw_dusty, flux_lw_dusty, flux_lw_nodust >>

\* the three arrays a crop call was handed
HandedArrays(c) == << c.wav, c.flux1, c.flux2 >>

\* the invocations made by the crop cell
CropCalls == { n \in DOMAIN calls : calls[n].site \in {"crop_s", "crop_l"} }

\* C23: the crop cell slices the wavelength, the target flux and the
\* reference flux of a band with the same offsets: when the three arrays have
\* the same length, the three cropped arrays have the same length, and
\* element k of each is the element of its array at one and the same
\* position (k + the number of points removed from the front).
C23_CropKeepsParallel ==
    \A n \in CropCalls :
        LET before == BandArrays(calls[n].site)
            after == HandedArrays(calls[n])
            shift == IF calls[n].site = "crop_s"
                     THEN Len(before[1]) - Len(after[1]) ELSE 0
        IN  (Len(before[1]) = Len(before[2]) /\ Len(before[2]) = Len(before[3])) =>
                /\ Len(after[1]) = Len(after[2]) /\ Len(after[2]) = Len(after[3])
                /\ \A j \in 1..3 : \A k \in DOMAIN after[j] :
                      after[j][k] = before[j][k + shift]

\* C23: both crop calls were made on bands of three arrays of three points,
\* one point removed from the front of the short-wavelength arrays and one
\* from the end of the long-wavelength arrays
C23_Witness ==
    /\ Len(calls) = 4 /\ s_crop = 1 /\ l_crop = -1
    /\ \A n \in CropCalls :
          /\ \A j \in 1..3 : Len(BandArrays(calls[n].site)[j]) = 3
          /\ \A j \in 1..3 : Len(HandedArrays(calls[n])[j]) = 2

\* the wavelength and the flux array of every loaded spectrum have the same
\* length
LoadedParallel == \A f \in FileNames : Len(files[f].wav) = Len(files[f].flux)

\* C24: when every loaded spectrum has a wavelength and a flux array of the
\* same length, then after the alignment cell the two arrays of every
\* spectrum still have the same length, whatever the lengths of the two
\* long-wavelength spectra are.
C24_ParallelAfterAlign ==
    (Aligned /\ LoadedParallel) =>
        /\ Len(wav_lw_dusty) = Len(flux_lw_dusty)
        /\ Len(wav_lw_nodust) = Len(flux_lw_nodust)
        /\ Len(wav_sw_dusty) = Len(flux_sw_dusty)
        /\ Len(wav_sw_nodust) = Len(flux_sw_nodust)

\* C24: the alignment cell has cut a no-dust spectrum of three points to the
\* one point of the dusty spectrum
C24_Witness ==
    /\ pc = "plot" /\ LoadedParallel
    /\ Len(lwDustyLoaded.wav) = 1 /\ Len(lwNodustLoaded.wav) = 3
    /\ Len(wav_lw_nodust) = 1 /\ Len(flux_lw_nodust) = 1

\* the two long-wavelength sequences, the pair the alignment returns
lwPair == << wav_lw_dusty, flux_lw_dusty, wav_lw_nodust, flux_lw_nodust >>

\* C25: the alignment is idempotent: executed again on the sequences it has
\* returned, it returns the same pair of sequences, whatever the lengths the
\* two sequences were loaded with.
C25_AlignIdempotent ==
    [][(pc = "align" /\ reruns > 0) => lwPair' = lwPair]_vars

\* C25: the alignment cell was executed twice on a no-dust spectrum loaded
\* with three points and a dusty spectrum of one point: one point is left
C25_Witness ==
    /\ pc = "plot" /\ reruns = 1
    /\ Len(lwDustyLoaded.wav) = 1 /\ Len(lwNodustLoaded.wav) = 3
    /\ Len(wav_lw_dusty) = 1 /\ Len(wav_lw_nodust) = 1 /\ Len(flux_lw_nodust) = 1

\* C26: the alignment cell changes the long-wavelength no-dust sequence
\* only: the long-wavelength dusty sequence and both short-wavelength
\* sequences are after it what they were before it, whatever the lengths,
\* the dusty sequence being the longer one included.
C26_AlignChangesReferenceOnly ==
    /\ [][pc = "align" =>
             /\ wav_lw_dusty' = wav_lw_dusty /\ flux_lw_dusty' = flux_lw_dusty
             /\ wav_sw_dusty' = wav_sw_dusty /\ flux_sw_dusty' = flux_sw_dusty
             /\ wav_sw_nodust' = wav_sw_nodust /\ flux_sw_nodust' = flux_sw_nodust]_vars
    /\ [](/\ wav_lw_dusty = lwDustyLoaded.wav /\ flux_lw_dusty = lwDustyLoaded.flux
          /\ wav_sw_dusty = files["sw_dusty"].wav /\ flux_sw_dusty = files["sw_dusty"].flux
          /\ wav_sw_nodust = files["sw_nodust"].wav
          /\ flux_sw_nodust = files["sw_nodust"].flux)

\* C26: the alignment cell has run on a dusty spectrum of three points and a
\* no-dust spectrum of one point, the short-wavelength spectrum of three
\* points: the dusty spectrum still has its three points
C26_Witness ==
    /\ pc = "plot"
    /\ Len(lwDustyLoaded.wav) = 3 /\ Len(lwNodustLoaded.wav) = 1
    /\ Len(wav_lw_dusty) = 3 /\ Len(flux_lw_dusty) = 3 /\ Len(wav_lw_nodust) = 1
    /\ Len(wav_sw_dusty) = 3

\* the front offset is smaller than both loaded lengths
FrontOffsetInRange ==
    s_crop < Len(lwDustyLoaded.wav) /\ s_crop < Len(lwNodustLoaded.wav)

\* the loaded pair aligned, then each sequence cropped from the front
AlignedThenCropped ==
    << PySliceFrom(lwDustyLoaded.wav, s_crop), PySliceFrom(lwDustyLoaded.flux, s_crop),
       PySliceFrom(PySliceTo(lwNodustLoaded.wav, Len(lwDustyLoaded.wav)), s_crop),
       PySliceFrom(PySliceTo(lwNodustLoaded.flux, Len(lwDustyLoaded.flux)), s_crop) >>

\* C27: a front crop commutes with the alignment: for a front offset smaller
\* than both lengths, the alignment of the two cropped sequences is the pair
\* of the crops of the two aligned sequences: whichever of the two was
\* executed first, both executed leave the same pair.
C27_FrontCropCommutes ==
    (pc = "plot" /\ reruns = 1 /\ FrontOffsetInRange) => lwPair = AlignedThenCropped

\* C27: the crop of one point and the alignment were both executed on a
\* dusty spectrum of two points and a no-dust spectrum of three: the pair
\* left is one point each, the second of each spectrum
C27_Witness ==
    /\ pc = "plot" /\ reruns = 1 /\ s_crop = 1
    /\ Len(lwDustyLoaded.wav) = 2 /\ Len(lwNodustLoaded.wav) = 3
    /\ wav_lw_dusty = << lwDustyLoaded.wav[2] >>
    /\ wav_lw_nodust = << lwNodustLoaded.wav[2] >>
    /\ flux_lw_nodust = << lwNodustLoaded.flux[2] >>

\* a <= b as numbers (false when either is NaN)
Leq(a, b) ==
    /\ a.k \in {"fin", "zero", "inf"} /\ b.k \in {"fin", "zero", "inf"}
    /\ IF a.k = "inf" THEN a.s = -1 \/ (b.k = "inf" /\ b.s = 1)
       ELSE IF b.k = "inf" THEN b.s = 1
       ELSE a.s * a.p * b.q <= b.s * b.p * a.q

NonDecreasing(x) == \A i \in 1..(Len(x) - 1) : Leq(x[i], x[i + 1])
NonIncreasing(x) == \A i \in 1..(Len(x) - 1) : Leq(x[i + 1], x[i])
AllPositive(x) == \A i \in DOMAIN x : IsPositive(x[i])

\* C28: a non-decreasing wavelength array is still non-decreasing after the
\* alignment cell and after the crop, and for a positive non-decreasing
\* wavelength array the inverse wavelengths Extinction returns are
\* non-increasing.
C28_MonotonicityKept ==
    /\ [][pc = "align" =>
             /\ NonDecreasing(wav_lw_nodust) => NonDecreasing(wav_lw_nodust')
             /\ NonDecreasing(wav_lw_dusty) => NonDecreasing(wav_lw_dusty')]_vars
    /\ [](\A n \in CropCalls :
             NonDecreasing(BandArrays(calls[n].site)[1]) => NonDecreasing(calls[n].wav))
    /\ [](\A n \in DOMAIN calls :
             (/\ calls[n].out.raised = "none"
              /\ NonDecreasing(calls[n].wav) /\ AllPositive(calls[n].wav))
                 => NonIncreasing(calls[n].out.inv_wav))

\* C28: the alignment has cut a non-decreasing no-dust wavelength array with
\* a repeated value, the crop has removed a point of a non-decreasing dusty
\* array with a repeated value, and Extinction has returned its inverse
\* wavelengths: 5 and 5 for the wavelengths 2000 and 2000
C28_Witness ==
    /\ Len(calls) = 4
    /\ lwNodustLoaded.wav = << Num(1000), Num(1000), Num(2000) >>
    /\ wav_lw_nodust = << Num(1000), Num(1000) >>
    /\ wav_lw_dusty = << Num(2000), Num(2000) >>
    /\ s_crop = 0 /\ l_crop = -1
    /\ calls[1].out.raised = "none"
    /\ calls[1].out.inv_wav = << Num(5), Num(5) >>
    /\ calls[4].wav = << Num(2000) >>

\* the second invocation is the first with target and reference exchanged:
\* the flux arrays and the two normalization constants, EBV the same
RolesExchanged ==
    /\ Len(calls) = 2
    /\ calls[1].out.raised = "none" /\ calls[2].out.raised = "none"
    /\ calls[2].flux1 = calls[1].flux2 /\ calls[2].flux2 = calls[1].flux1
    /\ calls[2].V_dusty = calls[1].V_nodust /\ calls[2].V_nodust = calls[1].V_dusty
    /\ calls[2].EBV = calls[1].EBV

PositiveFinite(a) == a.k = "fin" /\ a.s = 1

\* positive fluxes and normalization constants, a non-zero EBV
PositiveInputs(c) ==
    /\ \A i \in DOMAIN c.flux1 : PositiveFinite(c.flux1[i])
    /\ \A i \in DOMAIN c.flux2 : PositiveFinite(c.flux2[i])
    /\ PositiveFinite(c.V_dusty) /\ PositiveFinite(c.V_nodust)
    /\ c.EBV.k = "fin"

\* b is -a (the two zeros are one number)
IsNegationOf(b, a) == IF a.k = "zero" THEN b.k = "zero" ELSE b = Neg(a)

\* target and reference are the same: fluxes and normalization constants
SameAsReference(c) == c.flux1 = c.flux2 /\ c.V_dusty = c.V_nodust

\* C29 (as claimed): for positive fluxes and normalization constants and a
\* non-zero EBV, exchanging target and reference negates every derived
\* value, and a target identical to its reference gives 0 at every index.
C29_Antisymmetry ==
    /\ (RolesExchanged /\ PositiveInputs(calls[1])) =>
            \A i \in DOMAIN calls[1].out.ext :
                IsNegationOf(calls[2].out.ext[i], calls[1].out.ext[i])
    /\ \A n \in DOMAIN calls :
          (calls[n].out.raised = "none" /\ PositiveInputs(calls[n])
              /\ SameAsReference(calls[n])) =>
                \A i \in DOMAIN calls[n].out.ext : IsZero(calls[n].out.ext[i])

\* no quotient the invocation computes overflows or underflows
QuotientsInRange(c) ==
    /\ RatioNorm(c).k = "fin"
    /\ \A i \in DOMAIN c.flux1 :
          /\ RatioFlux(c, i).k = "fin"
          /\ Div(RatioNorm(c), RatioFlux(c, i)).k = "fin"

\* C29 (amended): the same, for inputs none of whose quotients overflows or
\* underflows in either assignment of the roles; a target identical to its
\* reference gives 0 at every index for all positive finite inputs.
C29_AntisymmetryInRange ==
    /\ (/\ RolesExchanged /\ PositiveInputs(calls[1])
        /\ QuotientsInRange(calls[1]) /\ QuotientsInRange(calls[2])) =>
            \A i \in DOMAIN calls[1].out.ext :
                IsNegationOf(calls[2].out.ext[i], calls[1].out.ext[i])
    /\ \A n \in DOMAIN calls :
          (calls[n].out.raised = "none" /\ PositiveInputs(calls[n])
              /\ SameAsReference(calls[n])) =>
                \A i \in DOMAIN calls[n].out.ext : IsZero(calls[n].out.ext[i])

\* C29: both calls returned on exchanged roles, two points, quotients in
\* range: the derived values are non-zero and each other's negation
C29_Witness ==
    /\ RolesExchanged /\ PositiveInputs(calls[1])
    /\ QuotientsInRange(calls[1]) /\ QuotientsInRange(calls[2])
    /\ calls[1].V_dusty # calls[1].V_nodust
    /\ Len(calls[1].out.ext) >= 2
    /\ calls[1].out.ext[1].k = "fin" /\ calls[1].out.ext[2].k = "fin"
    /\ calls[2].out.ext[1] = Neg(calls[1].out.ext[1])
    /\ calls[2].out.ext[2] = Neg(calls[1].out.ext[2])

\* C29: Extinction returned on a target identical to its reference: zeros
C29_WitnessIdentical ==
    \E n \in DOMAIN calls :
        /\ calls[n].out.raised = "none" /\ PositiveInputs(calls[n])
        /\ SameAsReference(calls[n])
        /\ Len(calls[n].out.ext) >= 2
        /\ \A i \in DOMAIN calls[n].out.ext : IsZero(calls[n].out.ext[i])

====
